---- MODULE Spec2Model ----
(***************************************************************************)
(* Model of the Bio-OS MCP server's input composition engine               *)
(* (tools/compose.py, WorkflowInputParams, compose_input_json) and of its  *)
(* Dockstore search pipeline (search_dockstore, handle_search,             *)
(* DockstoreSearch._build_search_body, RerankClient.rerank).               *)
(* It also covers dockstore_workflow_download (WorkflowSelector) and, in    *)
(* SpecLoop, two tool invocations in flight on the server's event loop.    *)
(*                                                                         *)
(* Text is modelled as a sequence of one-character strings, JSON values    *)
(* as records of one uniform shape (JVal), Python dicts as functions       *)
(* whose DOMAIN is the key set, Python lists as sequences.                 *)
(***************************************************************************)
EXTENDS Integers, Sequences, FiniteSets, TLC

VARIABLES
    pc,          \* position of the tool call in flight
    tool,        \* which tool was called
    cfg,         \* compose_input_json: the raw fields of WorkflowInputParams
    params,      \* values["params"] after _normalize_params
    tpl,         \* the template build_inputs loaded
    cls,         \* classify's result: required, opt_def, opt_nodef
    req_order,   \* the order in which this process iterates the set `required`
    sample,      \* fill_one_sample's argument (SpecFill)
    filled,      \* fill_one_sample's filled dict (SpecFill)
    errors,      \* fill_one_sample's errors list (SpecFill)
    filled_all,  \* build_inputs: filled_all
    all_errs,    \* build_inputs: all_errs
    out_file,    \* the file at cfg.output_json
    config,      \* search tools: the DockstoreSearchConfig
    queries,     \* search tools: queries
    body,        \* the search body handed to the backend
    results,     \* the backend's answer
    reranked,    \* search_dockstore: reranked
    rerank_resp, \* how the request to the rerank service ended
    workflow,    \* dockstore_workflow_download: the workflow found, its versions
    wdl_files,   \* the (path, content) pairs extract_wdl_files returned
    wdl_dir,     \* the files of the target directory: name -> content
    calls,       \* log of the external calls made, in order
    ret,         \* what the tool call returned or raised
    tasks,       \* SpecLoop: the tool invocations in flight on the event loop
    loop,        \* SpecLoop: 0, or the invocation holding the loop's thread
    RERANKER     \* the module's RerankClient, shared by all invocations

composeVars == << cfg, params, tpl, cls, req_order, filled_all, all_errs, out_file >>
fillVars == << sample, filled, errors >>
searchVars == << config, queries, body, results, reranked, rerank_resp >>
downloadVars == << workflow, wdl_files, wdl_dir >>
loopVars == << tasks, loop, RERANKER >>
vars == << pc, tool, composeVars, fillVars, searchVars, downloadVars, calls, ret, loopVars >>

(***************************************************************************)
(* Bounds of the model.                                                    *)
(***************************************************************************)
MaxTplKeys == 2      \* template keys drawn from the first MaxTplKeys of KeyPool
MaxExtraKeys == 2    \* sample-only keys drawn from the first MaxExtraKeys of ExtraPool
MaxBatch == 3        \* longest params list
MaxConds == 2        \* longest query list
MaxHits == 2         \* most hits the backend returns
MaxVersions == 2     \* most versions of a workflow

(***************************************************************************)
(* Generic helpers.                                                        *)
(***************************************************************************)
Min(a, b) == IF a < b THEN a ELSE b

Range(s) == { s[i] : i \in 1..Len(s) }

\* All sequences that list every element of S exactly once.
Orderings(S) ==
    { s \in [1..Cardinality(S) -> S] : \A x \in S : \E i \in DOMAIN s : s[i] = x }

EmptyDict == << >>

\* str.join / list concatenation with a separator, over sequences of sequences.
RECURSIVE Join(_, _)
Join(parts, sep) ==
    IF Len(parts) = 0 THEN << >>
    ELSE IF Len(parts) = 1 THEN parts[1]
    ELSE parts[1] \o sep \o Join(Tail(parts), sep)

\* list * n
RECURSIVE Repeat(_, _)
Repeat(l, n) == IF n <= 0 THEN << >> ELSE l \o Repeat(l, n - 1)

(***************************************************************************)
(* JSON values.  One record shape for every value so that any two values   *)
(* can be compared: kind says which of the other fields is meaningful.     *)
(* A float is n * 10^e with n not divisible by 10 (0.0 is n = 0, e = 0).   *)
(***************************************************************************)
JVal(kind, b, n, e, s) == [kind |-> kind, b |-> b, n |-> n, e |-> e, s |-> s]
JNull == JVal("null", FALSE, 0, 0, << >>)
JBool(b) == JVal("bool", b, 0, 0, << >>)
JInt(n) == JVal("int", FALSE, n, 0, << >>)
JFloat(n, e) == JVal("float", FALSE, n, e, << >>)
JStr(s) == JVal("str", FALSE, 0, 0, s)

(***************************************************************************)
(* Characters.                                                             *)
(***************************************************************************)
UpperChars == <<"A","B","C","D","E","F","G","H","I","J","K","L","M",
                "N","O","P","Q","R","S","T","U","V","W","X","Y","Z">>
LowerChars == <<"a","b","c","d","e","f","g","h","i","j","k","l","m",
                "n","o","p","q","r","s","t","u","v","w","x","y","z">>
DigitChars == <<"0","1","2","3","4","5","6","7","8","9">>

\* str.lower() on one character
LowerChar(c) ==
    IF \E i \in 1..26 : UpperChars[i] = c
    THEN LowerChars[CHOOSE i \in 1..26 : UpperChars[i] = c]
    ELSE c

\* str.lower()
Lower(s) == [i \in 1..Len(s) |-> LowerChar(s[i])]

IsDigit(c) == c \in Range(DigitChars)
DigitVal(c) == (CHOOSE i \in 1..10 : DigitChars[i] = c) - 1

\* \s in the pattern and the whitespace str.strip() removes
IsSpace(c) == c \in {" ", "\t", "\n", "\r"}
IsQuote(c) == c \in {"\"", "'"}

\* The first index >= i of s whose character is not whitespace (Len(s)+1 if none).
RECURSIVE SkipSpace(_, _)
SkipSpace(s, i) ==
    IF i <= Len(s) /\ IsSpace(s[i]) THEN SkipSpace(s, i + 1) ELSE i

\* The first index >= i of s whose character is not a digit.
RECURSIVE SkipDigits(_, _)
SkipDigits(s, i) ==
    IF i <= Len(s) /\ IsDigit(s[i]) THEN SkipDigits(s, i + 1) ELSE i

\* The first index >= i of s holding ")" (Len(s)+1 if none).
RECURSIVE FindClose(_, _)
FindClose(s, i) ==
    IF i <= Len(s) /\ s[i] # ")" THEN FindClose(s, i + 1) ELSE i

\* The last index <= j of s whose character is not in the stripped class.
RECURSIVE BackSpace(_, _)
BackSpace(s, j) ==
    IF j >= 1 /\ IsSpace(s[j]) THEN BackSpace(s, j - 1) ELSE j

RECURSIVE SkipQuote(_, _)
SkipQuote(s, i) ==
    IF i <= Len(s) /\ IsQuote(s[i]) THEN SkipQuote(s, i + 1) ELSE i

RECURSIVE BackQuote(_, _)
BackQuote(s, j) ==
    IF j >= 1 /\ IsQuote(s[j]) THEN BackQuote(s, j - 1) ELSE j

Slice(s, i, j) == IF i > j THEN << >> ELSE SubSeq(s, i, j)

\* str.strip()
Strip(s) == Slice(s, SkipSpace(s, 1), BackSpace(s, Len(s)))

\* str.strip('"\'')
StripQuotes(s) == Slice(s, SkipQuote(s, 1), BackQuote(s, Len(s)))

\* A literal of the pattern matched at index i of s under re.IGNORECASE.
MatchWord(s, i, w) ==
    /\ i + Len(w) - 1 <= Len(s)
    /\ \A j \in 1..Len(w) : LowerChar(s[i + j - 1]) = w[j]

IsChar(s, i, c) == i <= Len(s) /\ s[i] = c

\* Value of a digit string, most significant digit first.
RECURSIVE DigitsValue(_)
DigitsValue(s) ==
    IF Len(s) = 0 THEN 0
    ELSE 10 * DigitsValue(SubSeq(s, 1, Len(s) - 1)) + DigitVal(s[Len(s)])

(***************************************************************************)
(* Template specification strings the model draws from, with what          *)
(* compose._parse_spec returns for each.                                   *)
(*   1  String                                   ('required', None)        *)
(*   2  Int (optional, default = 4)              ('opt_def', 4)            *)
(*   3  Boolean (optional)                       ('opt_nodef', None)       *)
(*   4  Boolean (OPTIONAL, DEFAULT = True)       ('opt_def', True)         *)
(*   5  Float (optional, default = 0.50)         ('opt_def', 0.5)          *)
(*   6  String (optional, default = "hg38")      ('opt_def', 'hg38')       *)
(*   7  String (optional, default = 1.2.3)       ('opt_def', '1.2.3')      *)
(*   8  Int (optional, default = -12)            ('opt_def', -12)          *)
(*   9  (optional, default=)                     ('required', None)        *)
(*  10  ( optional ,default= ' 7 ' )             ('opt_def', 7)            *)
(*  11  (optional, default = )                   ('opt_def', '')           *)
(*  12  File (optional                           ('required', None)        *)
(*  13  Int (optional, default = 1e2)            ('opt_def', '1e2')        *)
(*  14  Float (optional, default = 1.5e1)        ('opt_def', 15.0)         *)
(*  15  A (optional) B (optional, default = 3)   ('opt_nodef', None)       *)
(*  16  (optional, default = fALSE )             ('opt_def', False)        *)
(*  17  (optional, default = ' hg 19 ')          ('opt_def', ' hg 19 ')    *)
(*  18  (Optional\t)                             ('opt_nodef', None)       *)
(***************************************************************************)
SpecCatalogue ==
    << <<"S","t","r","i","n","g">>,
       <<"I","n","t"," ","(","o","p","t","i","o","n","a","l",","," ","d","e","f","a","u","l","t"," ","="," ","4",")">>,
       <<"B","o","o","l","e","a","n"," ","(","o","p","t","i","o","n","a","l",")">>,
       <<"B","o","o","l","e","a","n"," ","(","O","P","T","I","O","N","A","L",","," ","D","E","F","A","U","L","T"," ","="," ","T","r","u","e",")">>,
       <<"F","l","o","a","t"," ","(","o","p","t","i","o","n","a","l",","," ","d","e","f","a","u","l","t"," ","="," ","0",".","5","0",")">>,
       <<"S","t","r","i","n","g"," ","(","o","p","t","i","o","n","a","l",","," ","d","e","f","a","u","l","t"," ","="," ","\"","h","g","3","8","\"",")">>,
       <<"S","t","r","i","n","g"," ","(","o","p","t","i","o","n","a","l",","," ","d","e","f","a","u","l","t"," ","="," ","1",".","2",".","3",")">>,
       <<"I","n","t"," ","(","o","p","t","i","o","n","a","l",","," ","d","e","f","a","u","l","t"," ","="," ","-","1","2",")">>,
       <<"(","o","p","t","i","o","n","a","l",","," ","d","e","f","a","u","l","t","=",")">>,
       <<"("," ","o","p","t","i","o","n","a","l"," ",",","d","e","f","a","u","l","t","="," ","'"," ","7"," ","'"," ",")">>,
       <<"(","o","p","t","i","o","n","a","l",","," ","d","e","f","a","u","l","t"," ","="," ",")">>,
       <<"F","i","l","e"," ","(","o","p","t","i","o","n","a","l">>,
       <<"I","n","t"," ","(","o","p","t","i","o","n","a","l",","," ","d","e","f","a","u","l","t"," ","="," ","1","e","2",")">>,
       <<"F","l","o","a","t"," ","(","o","p","t","i","o","n","a","l",","," ","d","e","f","a","u","l","t"," ","="," ","1",".","5","e","1",")">>,
       <<"A"," ","(","o","p","t","i","o","n","a","l",")"," ","B"," ","(","o","p","t","i","o","n","a","l",","," ","d","e","f","a","u","l","t"," ","="," ","3",")">>,
       <<"(","o","p","t","i","o","n","a","l",","," ","d","e","f","a","u","l","t"," ","="," ","f","A","L","S","E"," ",")">>,
       <<"(","o","p","t","i","o","n","a","l",","," ","d","e","f","a","u","l","t"," ","="," ","'"," ","h","g"," ","1","9"," ","'",")">>,
       <<"(","O","p","t","i","o","n","a","l","\t",")">> >>

(***************************************************************************)
(* _OPT_RE = \(\s*optional(?:\s*,\s*default\s*=\s*([^)]+))?\s*\)           *)
(* compiled with re.IGNORECASE.                                            *)
(***************************************************************************)
NoMatch == [ok |-> FALSE, hasGroup |-> FALSE, group |-> << >>]

\* The optional group (?:\s*,\s*default\s*=\s*([^)]+)) tried at index b,
\* together with the \s*\) that must follow it.  After "=" the greedy \s*
\* runs to q and the greedy [^)]+ to the next ")" at r; when nothing lies
\* between them, \s* gives back its last character to [^)]+.
OptGroupAt(s, b) ==
    LET p1 == SkipSpace(s, b)
        p2 == SkipSpace(s, p1 + 1)
        p3 == SkipSpace(s, p2 + 7)
        p4 == p3 + 1
        q  == SkipSpace(s, p4)
        r  == FindClose(s, q)
    IN  IF ~(IsChar(s, p1, ",") /\ MatchWord(s, p2, <<"d","e","f","a","u","l","t">>)
              /\ IsChar(s, p3, "=") /\ r <= Len(s))
        THEN NoMatch
        ELSE IF r > q THEN [ok |-> TRUE, hasGroup |-> TRUE, group |-> SubSeq(s, q, r - 1)]
        ELSE IF q > p4 THEN [ok |-> TRUE, hasGroup |-> TRUE, group |-> SubSeq(s, q - 1, q - 1)]
        ELSE NoMatch

\* The whole pattern tried at index i of s.
OptReMatchAt(s, i) ==
    LET a == SkipSpace(s, i + 1)
        b == a + 8
        g == OptGroupAt(s, b)
    IN  IF ~(IsChar(s, i, "(") /\ MatchWord(s, a, <<"o","p","t","i","o","n","a","l">>))
        THEN NoMatch
        ELSE IF g.ok THEN g
        ELSE IF IsChar(s, SkipSpace(s, b), ")")
             THEN [ok |-> TRUE, hasGroup |-> FALSE, group |-> << >>]
        ELSE NoMatch

\* _OPT_RE.search(spec): the match at the leftmost index that has one.
RECURSIVE OptReSearchFrom(_, _)
OptReSearchFrom(s, i) ==
    IF i > Len(s) THEN NoMatch
    ELSE IF OptReMatchAt(s, i).ok THEN OptReMatchAt(s, i)
    ELSE OptReSearchFrom(s, i + 1)

OptReSearch(s) == OptReSearchFrom(s, 1)

(***************************************************************************)
(* int(str) and float(str) on the characters of the model: optional        *)
(* surrounding whitespace, an optional sign, decimal digits; for float a   *)
(* fraction and an exponent.  (inf, nan and infinity hold no "." and so    *)
(* never reach float() in _parse_spec.)  ok = FALSE stands for ValueError. *)
(***************************************************************************)
SignLen(t, i) == IF IsChar(t, i, "-") \/ IsChar(t, i, "+") THEN 1 ELSE 0
SignOf(t, i) == IF IsChar(t, i, "-") THEN -1 ELSE 1

PyInt(x) ==
    LET t  == Strip(x)
        i1 == 1 + SignLen(t, 1)
        i2 == SkipDigits(t, i1)
        ok == i2 > i1 /\ i2 = Len(t) + 1
    IN  [ok |-> ok,
         val |-> IF ok THEN JInt(SignOf(t, 1) * DigitsValue(SubSeq(t, i1, i2 - 1)))
                 ELSE JNull]

\* n * 10^e with the trailing zeros of n moved into e.
RECURSIVE NormFloat(_, _)
NormFloat(n, e) ==
    IF n = 0 THEN JFloat(0, 0)
    ELSE IF n % 10 = 0 THEN NormFloat(n \div 10, e + 1)
    ELSE JFloat(n, e)

PyFloat(x) ==
    LET t      == Strip(x)
        i1     == 1 + SignLen(t, 1)
        i2     == SkipDigits(t, i1)
        hasDot == IsChar(t, i2, ".")
        i3     == IF hasDot THEN SkipDigits(t, i2 + 1) ELSE i2
        ip     == Slice(t, i1, i2 - 1)
        fp     == IF hasDot THEN Slice(t, i2 + 1, i3 - 1) ELSE << >>
        hasExp == i3 <= Len(t) /\ LowerChar(t[i3]) = "e"
        i4     == IF hasExp THEN i3 + 1 + SignLen(t, i3 + 1) ELSE i3
        i5     == IF hasExp THEN SkipDigits(t, i4) ELSE i3
        ok     == /\ Len(ip) + Len(fp) >= 1
                  /\ hasExp => i5 > i4
                  /\ i5 = Len(t) + 1
        ex     == IF hasExp THEN SignOf(t, i3 + 1) * DigitsValue(Slice(t, i4, i5 - 1))
                  ELSE 0
    IN  [ok |-> ok,
         val |-> IF ok THEN NormFloat(SignOf(t, 1) * DigitsValue(ip \o fp), ex - Len(fp))
                 ELSE JNull]

(***************************************************************************)
(* _parse_spec(spec) -> (kind, default).  kind = "raised" stands for the   *)
(* TypeError re raises when the template value is not a string.            *)
(***************************************************************************)
\* ParsedDefault with the boolean test made case-sensitive (no .lower()).
ParsedDefault_CaseSensitive(default_raw) ==
    IF default_raw \in { <<"t","r","u","e">>, <<"f","a","l","s","e">> }
    THEN JBool(default_raw = <<"t","r","u","e">>)
    ELSE IF "." \in Range(default_raw)
         THEN IF PyFloat(default_raw).ok THEN PyFloat(default_raw).val
              ELSE JStr(default_raw)
    ELSE IF PyInt(default_raw).ok THEN PyInt(default_raw).val
    ELSE JStr(default_raw)

ParsedDefault(default_raw) ==
    IF Lower(default_raw) \in { <<"t","r","u","e">>, <<"f","a","l","s","e">> }
    THEN JBool(Lower(default_raw) = <<"t","r","u","e">>)
    ELSE IF "." \in Range(default_raw)
         THEN IF PyFloat(default_raw).ok THEN PyFloat(default_raw).val
              ELSE JStr(default_raw)
    ELSE IF PyInt(default_raw).ok THEN PyInt(default_raw).val
    ELSE JStr(default_raw)

parse_spec(spec) ==
    IF spec.kind # "str" THEN [kind |-> "raised", default |-> JNull]
    ELSE LET m == OptReSearch(spec.s) IN
         IF ~m.ok THEN [kind |-> "required", default |-> JNull]
         ELSE IF ~m.hasGroup THEN [kind |-> "opt_nodef", default |-> JNull]
         ELSE [kind |-> "opt_def",
               default |-> ParsedDefault(StripQuotes(Strip(m.group)))]

(***************************************************************************)
(* classify(tpl) -> (required, opt_def, opt_nodef); raised when            *)
(* _parse_spec raises on one of the values.                                *)
(***************************************************************************)
classify(t) ==
    LET kindOf(k) == parse_spec(t[k]).kind IN
    [raised    |-> \E k \in DOMAIN t : kindOf(k) = "raised",
     required  |-> { k \in DOMAIN t : kindOf(k) = "required" },
     opt_def   |-> [k \in { x \in DOMAIN t : kindOf(x) = "opt_def" }
                       |-> parse_spec(t[k]).default],
     opt_nodef |-> { k \in DOMAIN t : kindOf(k) \notin {"required", "opt_def", "raised"} }]

(***************************************************************************)
(* Input domains.                                                          *)
(***************************************************************************)
KeyPool == <<"sample_id", "threads", "extra_flag", "ref">>
ExtraPool == <<"bogus", "typo", "junk">>

TemplateKeys == { KeyPool[i] : i \in 1..Min(MaxTplKeys, Len(KeyPool)) }
ExtraKeys == { ExtraPool[i] : i \in 1..Min(MaxExtraKeys, Len(ExtraPool)) }

\* Every dict with keys among K and values among V.
Dicts(K, V) == UNION { [D -> V] : D \in SUBSET K }

\* Template values: the catalogue's strings and one value that is no string.
SpecValues == { JStr(SpecCatalogue[i]) : i \in 1..Len(SpecCatalogue) } \cup { JInt(3) }

\* One template value of each class (the spec's composition scenario).
FillSpecValues == { JStr(SpecCatalogue[1]), JStr(SpecCatalogue[2]), JStr(SpecCatalogue[3]) }

\* The templates classify is applied to: the first key takes every value of
\* SpecValues, the other keys one value of each class or the non-string.
ClassifyTemplates ==
    UNION { { f @@ g : f \in [D \cap { KeyPool[1] } -> SpecValues],
                       g \in [D \ { KeyPool[1] } -> FillSpecValues \cup { JInt(3) }] }
            : D \in SUBSET TemplateKeys }

FillTemplates == Dicts(TemplateKeys, FillSpecValues)

SampleValues == { JStr(<<"S","1">>), JInt(8) }
Samples == Dicts(TemplateKeys \cup ExtraKeys, SampleValues)

(***************************************************************************)
(* fill_one_sample(sample, required, opt_def, opt_nodef, template_keys)    *)
(* -> (filled, errors).  `required` is a Python set: req_iter is the order *)
(* in which this process iterates it, extra_iter the order in which it     *)
(* iterates the set `extra`.  An error message is a token naming its kind  *)
(* and the keys its text holds.                                            *)
(***************************************************************************)
ErrMissing(k) == [tok |-> "missing", idx |-> 0, keys |-> << k >>]
ErrExtra(keys) == [tok |-> "extra", idx |-> 0, keys |-> keys]

\* filled[k] = v
Put(d, k, v) == [x \in DOMAIN d \cup {k} |-> IF x = k THEN v ELSE d[x]]

\* FillRequired writing None for a missing required key instead of omitting it.
RECURSIVE FillRequired_NullForMissing(_, _, _, _)
FillRequired_NullForMissing(smp, req_iter, i, acc) ==
    IF i > Len(req_iter) THEN acc
    ELSE LET k == req_iter[i] IN
         IF k \notin DOMAIN smp
         THEN FillRequired_NullForMissing(smp, req_iter, i + 1,
                  [filled |-> Put(acc.filled, k, JNull),
                   errors |-> Append(acc.errors, ErrMissing(k))])
         ELSE FillRequired_NullForMissing(smp, req_iter, i + 1,
                  [filled |-> Put(acc.filled, k, smp[k]), errors |-> acc.errors])

\* Loop 1 with `acc` = [filled, errors] so far, from position i of req_iter.
RECURSIVE FillRequired(_, _, _, _)
FillRequired(smp, req_iter, i, acc) ==
    IF i > Len(req_iter) THEN acc
    ELSE LET k == req_iter[i] IN
         IF k \notin DOMAIN smp
         THEN FillRequired(smp, req_iter, i + 1,
                  [filled |-> acc.filled, errors |-> Append(acc.errors, ErrMissing(k))])
         ELSE FillRequired(smp, req_iter, i + 1,
                  [filled |-> Put(acc.filled, k, smp[k]), errors |-> acc.errors])

\* FillOptDef that writes a defaulted key only when the sample holds it.
FillOptDef_SkipAbsent(smp, opt_def, fl) ==
    [k \in DOMAIN fl \cup (DOMAIN opt_def \cap DOMAIN smp) |->
        IF k \in DOMAIN opt_def \cap DOMAIN smp THEN smp[k] ELSE fl[k]]

\* Loop 2: filled[k] = sample.get(k, d) for every k, d of opt_def.
FillOptDef(smp, opt_def, fl) ==
    [k \in DOMAIN fl \cup DOMAIN opt_def |->
        IF k \in DOMAIN opt_def
        THEN (IF k \in DOMAIN smp THEN smp[k] ELSE opt_def[k])
        ELSE fl[k]]

\* Loop 3: filled[k] = sample[k] for every k of opt_nodef the sample holds.
FillOptNodef(smp, opt_nodef, fl) ==
    [k \in DOMAIN fl \cup (opt_nodef \cap DOMAIN smp) |->
        IF k \in opt_nodef \cap DOMAIN smp THEN smp[k] ELSE fl[k]]

\* ExtraErrors with one error per extra key instead of one combined error.
ExtraErrors_PerKey(smp, template_keys, extra_iter) ==
    [i \in 1..Len(extra_iter) |-> ErrExtra(<< extra_iter[i] >>)]

\* Step 4: one error joining the keys of extra = set(sample) - template_keys.
ExtraErrors(smp, template_keys, extra_iter) ==
    IF DOMAIN smp \ template_keys # {} THEN << ErrExtra(extra_iter) >> ELSE << >>

\* Mutant: the check for extra keys leaves the defaulted keys out of the
\* template's keys.
fill_one_sample_DefaultedAreExtra(smp, req_iter, opt_def, opt_nodef, template_keys, extra_iter) ==
    LET r1 == FillRequired(smp, req_iter, 1, [filled |-> EmptyDict, errors |-> << >>])
        f2 == FillOptDef(smp, opt_def, r1.filled)
        f3 == FillOptNodef(smp, opt_nodef, f2)
    IN  [filled |-> f3,
         errors |-> r1.errors \o ExtraErrors(smp, template_keys \ DOMAIN opt_def, extra_iter)]

fill_one_sample(smp, req_iter, opt_def, opt_nodef, template_keys, extra_iter) ==
    LET r1 == FillRequired(smp, req_iter, 1, [filled |-> EmptyDict, errors |-> << >>])
        f2 == FillOptDef(smp, opt_def, r1.filled)
        f3 == FillOptNodef(smp, opt_nodef, f2)
    IN  [filled |-> f3,
         errors |-> r1.errors \o ExtraErrors(smp, template_keys, extra_iter)]

(***************************************************************************)
(* WorkflowInputParams.  The raw `params` of a call is tagged with its     *)
(* shape: a dict (d), a list (l, each item a dict or not), or anything     *)
(* else.  sample_count is a JSON value: an int, or null when missing.      *)
(***************************************************************************)
ParamsDict(d) == [shape |-> "dict", d |-> d, l |-> << >>]
ParamsList(l) == [shape |-> "list", d |-> EmptyDict, l |-> l]
ParamsOther == [shape |-> "other", d |-> EmptyDict, l |-> << >>]
DictItem(d) == [isdict |-> TRUE, d |-> d]
NonDictItem == [isdict |-> FALSE, d |-> EmptyDict]

NoError == [err |-> "none", n |-> JNull, len |-> 0]
CountMismatch(n, len) == [err |-> "count_mismatch", n |-> n, len |-> len]
ParamsTypeError == [err |-> "params_type", n |-> JNull, len |-> 0]
\* list * n and len(raw) == 1 and n > 1 with n = None
OperandTypeError == [err |-> "operand_type", n |-> JNull, len |-> 0]

\* Mutant: a list is taken as it is, whatever its length.
normalize_params_AnyLength(values) ==
    IF values.params.shape = "list"
    THEN [exc |-> "none", error |-> NoError, params |-> values.params]
    ELSE IF values.params.shape = "dict" /\ values.sample_count.kind = "int"
    THEN [exc |-> "none", error |-> NoError,
          params |-> ParamsList(Repeat(<< DictItem(values.params.d) >>,
                                       values.sample_count.n))]
    ELSE [exc |-> "TypeError", error |-> ParamsTypeError, params |-> values.params]

\* _normalize_params(cls, values): the model validator that runs before the
\* fields are validated.  exc is "none", "ValueError" or "TypeError".
normalize_params(values) ==
    LET raw == values.params
        n   == values.sample_count
    IN  IF raw.shape = "dict"
        THEN IF n.kind = "int"
             THEN [exc |-> "none", error |-> NoError,
                   params |-> ParamsList(Repeat(<< DictItem(raw.d) >>, n.n))]
             ELSE [exc |-> "TypeError", error |-> OperandTypeError, params |-> raw]
        ELSE IF raw.shape = "list"
        THEN IF n.kind = "int" /\ Len(raw.l) = n.n
             THEN [exc |-> "none", error |-> NoError, params |-> raw]
             ELSE IF Len(raw.l) = 1 /\ n.kind # "int"
             THEN [exc |-> "TypeError", error |-> OperandTypeError, params |-> raw]
             ELSE IF Len(raw.l) = 1 /\ n.n > 1
             THEN [exc |-> "none", error |-> NoError,
                   params |-> ParamsList(Repeat(raw.l, n.n))]
             ELSE [exc |-> "ValueError", error |-> CountMismatch(n, Len(raw.l)),
                   params |-> raw]
        ELSE [exc |-> "TypeError", error |-> ParamsTypeError, params |-> raw]

\* Mutant: the items of the list are not looked at.
fields_valid_ItemsUnchecked(sample_count, p) ==
    /\ sample_count.kind = "int"
    /\ sample_count.n > 0
    /\ p.shape = "list"

\* Field validation after the model validator: sample_count is an int > 0
\* (Field(..., gt=0)); params is a dict or a list of dicts, and
\* _check_params_list wants a list of dicts.
fields_valid(sample_count, p) ==
    /\ sample_count.kind = "int"
    /\ sample_count.n > 0
    /\ p.shape = "list"
    /\ \A i \in 1..Len(p.l) : p.l[i].isdict

(***************************************************************************)
(* build_inputs and compose_input_json.  The combined error text is a      *)
(* sequence of tokens: sample headers, error messages and newlines.        *)
(***************************************************************************)
NL == [tok |-> "nl", idx |-> 0, keys |-> << >>]
Header(idx) == [tok |-> "header", idx |-> idx, keys |-> << >>]

\* Mutant: a sample's errors give no text.
ErrorBlock_Silent(idx, errs) == << >>

\* f"sample #{idx}:\n" + "\n".join(errs)
ErrorBlock(idx, errs) ==
    << Header(idx), NL >> \o Join([i \in 1..Len(errs) |-> << errs[i] >>], << NL >>)

\* Mutant: the blocks are joined by a single newline.
CombinedErrors_SingleNewline(blocks) == Join(blocks, << NL >>)

\* "\n\n".join(all_errs)
CombinedErrors(blocks) == Join(blocks, << NL, NL >>)

NoFile == [exists |-> FALSE, content |-> << >>]
FileWith(content) == [exists |-> TRUE, content |-> content]

S1 == JStr(<<"S", "1">>)

\* Templates and samples of the tool calls: the spec's composition scenario,
\* a template of defaulted fields only, and one whose value is no string.
TplScenario ==
    ("sample_id" :> JStr(SpecCatalogue[1])) @@ ("threads" :> JStr(SpecCatalogue[2]))
        @@ ("extra_flag" :> JStr(SpecCatalogue[3]))
TplDefaults == ("threads" :> JStr(SpecCatalogue[2])) @@ ("ref" :> JStr(SpecCatalogue[6]))
TplNotStrings == ("sample_id" :> JInt(3))
CallTemplates == { TplScenario, TplDefaults, TplNotStrings }

CallSamples ==
    { EmptyDict,
      ("sample_id" :> S1),
      ("sample_id" :> S1) @@ ("bogus" :> JInt(8)),
      ("threads" :> JInt(8)) @@ ("extra_flag" :> S1) }

CallItems == { DictItem(d) : d \in CallSamples } \cup { NonDictItem }
CallLists == UNION { [1..n -> CallItems] : n \in 0..MaxBatch }
CallParams ==
    { ParamsDict(d) : d \in CallSamples } \cup { ParamsList(l) : l \in CallLists }
        \cup { ParamsOther }
CallCounts == { JInt(n) : n \in -1..MaxBatch + 1 } \cup { JNull }

(***************************************************************************)
(* Dockstore search.  Field names, operators and terms are atomic strings; *)
(* a text built from them (a wildcard pattern, a display text, the         *)
(* reranker's query) is the sequence of its pieces.                        *)
(***************************************************************************)
\* str.upper() on the operators the model draws.
Upper(op) ==
    CASE op = "and" -> "AND"
      [] op = "or" -> "OR"
      [] OTHER -> op

\* One entry of `queries`; query_type is "unset" where the entry has no such key.
Query(term, field, operator, query_type) ==
    [terms |-> << term >>, fields |-> << field >>, operator |-> operator,
     query_type |-> query_type]

\* search_dockstore: the loop over config.query, items unpacked as
\* field, operator, term; items that are no 3-element lists are skipped.
RECURSIVE BuildQueries(_)
BuildQueries(query) ==
    IF Len(query) = 0 THEN << >>
    ELSE LET item == Head(query) IN
         (IF Len(item) = 3
          THEN << Query(item[3], item[1],
                        IF item[2] \in {"AND", "OR"} THEN item[2] ELSE "AND", "unset") >>
          ELSE << >>) \o BuildQueries(Tail(query))

\* handle_search: the comprehension over config.query, items unpacked as
\* term, field, operator (ValueError when an item has no 3 elements).
HandleSearchQueries(query, query_type) ==
    [i \in 1..Len(query) |->
        Query(query[i][1], query[i][2], Upper(query[i][3]), query_type)]

\* Mutant: the clause searches the field's name in the term.
Clause_SwapFieldTerm(term, field, query_type) ==
    [clause |-> "match", field |-> term, value |-> << field >>,
     case_insensitive |-> FALSE, boost |-> 2]

\* One clause of the "should" list, for one (term, field) of zip(terms, fields).
Clause(term, field, query_type) ==
    IF query_type = "wildcard"
    THEN [clause |-> "wildcard", field |-> field, value |-> << "*", term, "*" >>,
          case_insensitive |-> TRUE,
          boost |-> IF field \in {"full_workflow_path", "tool_path"} THEN 14 ELSE 2]
    ELSE [clause |-> "match", field |-> field, value |-> << term >>,
          case_insensitive |-> FALSE, boost |-> 2]

\* The clauses of one query: zip(terms, fields).
QueryClauses(q, query_type) ==
    [i \in 1..Min(Len(q.terms), Len(q.fields)) |->
        Clause(q.terms[i], q.fields[i], query_type)]

RECURSIVE ShouldClauses(_, _)
ShouldClauses(qs, query_type) ==
    IF Len(qs) = 0 THEN << >>
    ELSE QueryClauses(Head(qs), query_type) \o ShouldClauses(Tail(qs), query_type)

\* DockstoreSearch._build_search_body: the "query" part of the body.
build_search_body(qs, is_sentence, query_type) ==
    [size |-> 201,
     must |-> [field |-> "_index", value |-> "workflows"],
     should |-> ShouldClauses(qs, query_type),
     minimum_should_match |-> 1]

NoBody == [size |-> 0, must |-> [field |-> "", value |-> ""], should |-> << >>,
           minimum_should_match |-> 0]

\* What the backend does with the body's bool query: a document is returned
\* when it satisfies `must` and at least minimum_should_match clauses of
\* `should`.  A document is the index it lives in and the set of
\* <<field, term>> pairs its content matches.
ClauseTerm(c) == IF c.clause = "wildcard" THEN c.value[2] ELSE c.value[1]
ClauseMatches(c, doc) == << c.field, ClauseTerm(c) >> \in doc.matches
Accepts(b, doc) ==
    /\ doc.index = b.must.value
    /\ Cardinality({ i \in 1..Len(b.should) : ClauseMatches(b.should[i], doc) })
           >= b.minimum_should_match

(***************************************************************************)
(* RerankClient.rerank and the selection of the top hits.                  *)
(***************************************************************************)
\* sorted(..., key=score, reverse=True): stable, equal scores keep their order.
RECURSIVE InsertDesc(_, _)
InsertDesc(sorted, it) ==
    IF Len(sorted) = 0 THEN << it >>
    ELSE IF Head(sorted).score >= it.score
         THEN << Head(sorted) >> \o InsertDesc(Tail(sorted), it)
    ELSE << it >> \o sorted

RECURSIVE SortedDesc(_)
SortedDesc(l) ==
    IF Len(l) = 0 THEN << >>
    ELSE InsertDesc(SortedDesc(SubSeq(l, 1, Len(l) - 1)), l[Len(l)])

\* l[:n] of Python, n of either sign.
Prefix(l, n) ==
    IF n >= 0 THEN SubSeq(l, 1, Min(n, Len(l)))
    ELSE SubSeq(l, 1, IF Len(l) + n > 0 THEN Len(l) + n ELSE 0)

\* texts[i] of Python for an index of either sign: whether it exists.
IndexOk(i, len) == -len <= i /\ i < len

\* RerankClient.rerank once the service answered with `scores`: exc is
\* "IndexError" when an index of the answer is outside texts.
rerank(scores, texts, top_n) ==
    IF \E k \in 1..Len(scores) : ~IndexOk(scores[k].index, Len(texts))
    THEN [exc |-> "IndexError", ranked |-> << >>]
    ELSE LET ranked == SortedDesc(scores) IN
         [exc |-> "none",
          ranked |-> IF top_n # 0 THEN Prefix(ranked, top_n) ELSE ranked]

\* Mutant: the fallback keeps every hit.
fallback_AllHits(hits, top_n) ==
    [i \in 1..Len(hits) |-> [index |-> i - 1, score |-> hits[i]._score]]

\* search_dockstore's fallback: the first top_n hits with their own scores.
fallback(hits, top_n) ==
    LET kept == Prefix(hits, top_n) IN
    [i \in 1..Len(kept) |-> [index |-> i - 1, score |-> kept[i]._score]]

\* The display text of a hit.
HitText(h) ==
    << IF h._source.workflowName # "" THEN h._source.workflowName ELSE h._source.name,
       " - ", h._source.description >>

\* " ".join(term for q in config.query for term in (q[2],))
UserQuery(query) == Join([i \in 1..Len(query) |-> << query[i][3] >>], << " " >>)

\* The keyword DockstoreSearch.format_results takes for its detail level.
FormatResultsKeyword == "full_output"

(***************************************************************************)
(* Inputs of the search tools.                                             *)
(***************************************************************************)
SearchItems ==
    { << "name", "AND", "gatk" >>,
      << "description", "OR", "cnv" >>,
      << "full_workflow_path", "AND", "gatk" >>,
      << "name", "and", "cnv" >>,
      << "name", "AND" >>,
      << "name", "AND", "gatk", "extra" >> }
SearchQueries == UNION { [1..n -> SearchItems] : n \in 0..MaxConds }
\* The same conditions as dockstore_search takes them: [term, field, operator].
HandleItem(item) == IF Len(item) = 3 THEN << item[3], item[1], item[2] >> ELSE item
HandleQueries == { [i \in 1..Len(q) |-> HandleItem(q[i])] : q \in SearchQueries }
ALLOWED_QUERY_TYPES == { "match_phrase", "wildcard" }
QueryTypes == ALLOWED_QUERY_TYPES \cup { "fuzzy" }
TopNs == -1..MaxHits

Hit(score, workflowName, name, description, path) ==
    [_score |-> score,
     _source |-> [workflowName |-> workflowName, name |-> name,
                  description |-> description, full_workflow_path |-> path]]
HitPool ==
    << Hit(9, "gatk-best", "gatk", "GATK best practices", "github.com/broad/gatk"),
       Hit(8, "", "cnv-call", "CNV calling", "github.com/broad/cnv"),
       Hit(7, "align", "bwa", "", "github.com/lab/align"),
       Hit(6, "qc", "fastqc", "Quality control", "github.com/lab/qc") >>
\* The backend's answers: the first n hits of the pool, in score order.
HitLists == { SubSeq(HitPool, 1, n) : n \in 0..Min(MaxHits, Len(HitPool)) }

Scores == { 1, 2 }
\* The rerank service's answers for n texts: every index once, in any order,
\* with any scores; one answer with an index that does not exist; one that
\* lists an index twice; and one that names the last text by -1 as well.
RerankAnswers(n) ==
    { [k \in 1..n |-> [index |-> ord[k], score |-> sc[k]]] :
        ord \in Orderings(0..n - 1), sc \in [1..n -> Scores] }
      \cup { << [index |-> n, score |-> 1] >>,
              << [index |-> 0, score |-> 2], [index |-> 0, score |-> 1] >>,
              << [index |-> -1, score |-> 2], [index |-> n - 1, score |-> 1] >> }

\* One external call of the log.
CallRec(name, b, query, texts) ==
    [call |-> name, body |-> b, query |-> query, texts |-> texts]

NoConfig ==
    [query |-> << >>, top_n |-> 0, query_type |-> "", sentence |-> FALSE,
     get_files |-> FALSE]
NoResults == [answered |-> FALSE, hits |-> << >>]

\* The request to the rerank service: not made, failed (RequestException or
\* JSONDecodeError, re-raised as RuntimeError), or answered with `scores`.
NoRerankResp == [status |-> "none", scores |-> << >>]
RerankFailed == [status |-> "failed", scores |-> << >>]
RerankAnswered(scores) == [status |-> "answered", scores |-> scores]

(***************************************************************************)
(* What a tool call ends with: a value returned (kind generated,           *)
(* param_error, error, results, text) or an exception leaving the tool     *)
(* (kind rejected: while the config object is built; raised: later).       *)
(***************************************************************************)
Ret(kind, exc, error, text, count) ==
    [kind |-> kind, exc |-> exc, error |-> error, text |-> text, count |-> count]
NoRet == Ret("none", "", NoError, << >>, 0)
Rejected(exc, error) == Ret("rejected", exc, error, << >>, 0)
Raised(exc) == Ret("raised", exc, NoError, << >>, 0)
\* {"error": ...} of search_dockstore
SearchError(what, exc) == Ret("error", exc, [err |-> what, n |-> JNull, len |-> 0], << >>, 0)

NoCls == [raised |-> FALSE, required |-> {}, opt_def |-> EmptyDict, opt_nodef |-> {}]
NoCfg == [sample_count |-> JNull, params |-> ParamsOther]

\* The invocations in flight at once, and an invocation not yet called:
\* its tool, its position, its config, how the backend request ended
\* ("pending", "timeout", "none", "answered"), its hits, how the rerank
\* request ended, and what it returned.
Tasks == { 1, 2 }
NoTask ==
    [tool |-> "none", pc |-> "idle", config |-> NoConfig, backend |-> "pending",
     hits |-> << >>, rr |-> NoRerankResp, ret |-> NoRet]
\* RERANKER = RerankClient(api_url=...): its fields after construction.
RerankClient == [api_url |-> "rerank", timeout |-> 30]

\* Everything but pc and tpl before any tool call.
Idle ==
    /\ tool = "none"
    /\ cfg = NoCfg
    /\ params = ParamsOther
    /\ cls = NoCls
    /\ req_order = << >>
    /\ sample = EmptyDict
    /\ filled = EmptyDict
    /\ errors = << >>
    /\ filled_all = << >>
    /\ all_errs = << >>
    /\ out_file = NoFile
    /\ config = NoConfig
    /\ queries = << >>
    /\ body = NoBody
    /\ results = NoResults
    /\ reranked = << >>
    /\ rerank_resp = NoRerankResp
    /\ workflow = << >>
    /\ wdl_files = << >>
    /\ wdl_dir = EmptyDict
    /\ calls = << >>
    /\ ret = NoRet
    /\ tasks = [t \in Tasks |-> NoTask]
    /\ loop = 0
    /\ RERANKER = RerankClient

Init ==
    /\ Idle
    /\ pc = "idle"
    /\ tpl = EmptyDict

(***************************************************************************)
(* compose_input_json(cfg: WorkflowInputParams).                           *)
(***************************************************************************)
\* The MCP client calls compose_input_json with some arguments.
CallCompose ==
    /\ pc = "idle"
    /\ \E n \in CallCounts, p \in CallParams :
         cfg' = [sample_count |-> n, params |-> p]
    /\ tool' = "compose_input_json"
    /\ pc' = "normalize"
    /\ UNCHANGED << loopVars, params, tpl, cls, req_order, filled_all, all_errs, out_file,
                    fillVars, downloadVars, searchVars, calls, ret >>

\* WorkflowInputParams is built: first the "before" model validator ...
Normalize ==
    /\ pc = "normalize"
    /\ LET r == normalize_params(cfg) IN
         IF r.exc = "none"
         THEN /\ params' = r.params
              /\ pc' = "validate_fields"
              /\ ret' = ret
         ELSE /\ params' = params
              /\ pc' = "done"
              /\ ret' = Rejected(r.exc, r.error)
    /\ UNCHANGED << loopVars, tool, cfg, tpl, cls, req_order, filled_all, all_errs, out_file,
                    fillVars, downloadVars, searchVars, calls >>

\* ... then the fields and the "after" validator of params.
ValidateFields ==
    /\ pc = "validate_fields"
    /\ IF fields_valid(cfg.sample_count, params)
       THEN /\ pc' = "build_inputs"
            /\ ret' = ret
       ELSE /\ pc' = "done"
            /\ ret' = Rejected("ValidationError", NoError)
    /\ UNCHANGED << loopVars, tool, composeVars, fillVars, downloadVars, searchVars, calls >>

\* build_inputs opens and loads the template, then classifies it.  The file
\* may be missing and a template value may be no string: both raise, and
\* compose_input_json catches nothing.
ReadTemplate ==
    /\ pc = "build_inputs"
    /\ calls' = Append(calls, CallRec("read_template", NoBody, << >>, << >>))
    /\ \/ /\ pc' = "done"
          /\ ret' = Raised("FileNotFoundError")
          /\ UNCHANGED << tpl, cls, req_order >>
       \/ \E t \in CallTemplates :
             /\ tpl' = t
             /\ IF classify(t).raised
                THEN /\ pc' = "done"
                     /\ ret' = Raised("TypeError")
                     /\ UNCHANGED << cls, req_order >>
                ELSE /\ pc' = "fill_loop"
                     /\ cls' = classify(t)
                     /\ req_order' \in Orderings(classify(t).required)
                     /\ ret' = ret
    /\ UNCHANGED << loopVars, tool, cfg, params, filled_all, all_errs, out_file, fillVars, downloadVars,
                    searchVars >>

\* Mutant: a sample with errors leaves an empty map in the output.
FillNext_EmptyOnError ==
    /\ pc = "fill_loop"
    /\ Len(filled_all) < Len(params.l)
    /\ LET idx == Len(filled_all) + 1
           s   == params.l[idx].d
       IN  \E extra_iter \in Orderings(DOMAIN s \ DOMAIN tpl) :
             LET r == fill_one_sample(s, req_order, cls.opt_def, cls.opt_nodef,
                                      DOMAIN tpl, extra_iter)
             IN  /\ filled_all' = Append(filled_all,
                                    IF Len(r.errors) > 0 THEN EmptyDict ELSE r.filled)
                 /\ all_errs' = IF Len(r.errors) > 0
                                THEN Append(all_errs, ErrorBlock(idx, r.errors))
                                ELSE all_errs
    /\ UNCHANGED << loopVars, pc, tool, cfg, params, tpl, cls, req_order, out_file, fillVars, downloadVars,
                    searchVars, calls, ret >>

\* One iteration of build_inputs' loop over enumerate(samples, 1).
FillNext ==
    /\ pc = "fill_loop"
    /\ Len(filled_all) < Len(params.l)
    /\ LET idx == Len(filled_all) + 1
           s   == params.l[idx].d
       IN  \E extra_iter \in Orderings(DOMAIN s \ DOMAIN tpl) :
             LET r == fill_one_sample(s, req_order, cls.opt_def, cls.opt_nodef,
                                      DOMAIN tpl, extra_iter)
             IN  /\ filled_all' = Append(filled_all, r.filled)
                 /\ all_errs' = IF Len(r.errors) > 0
                                THEN Append(all_errs, ErrorBlock(idx, r.errors))
                                ELSE all_errs
    /\ UNCHANGED << loopVars, pc, tool, cfg, params, tpl, cls, req_order, out_file, fillVars, downloadVars,
                    searchVars, calls, ret >>

\* Mutant: the file is written before the error text is looked at.
ComposeReturn_WritesFirst ==
    /\ pc = "fill_loop"
    /\ Len(filled_all) = Len(params.l)
    /\ LET err == CombinedErrors(all_errs) IN
         /\ calls' = Append(calls, CallRec("write_output", NoBody, << >>, << >>))
         /\ out_file' = FileWith(filled_all)
         /\ ret' = IF Len(err) > 0
                   THEN Ret("param_error", "", NoError, err, Len(filled_all))
                   ELSE Ret("generated", "", NoError, err, Len(filled_all))
    /\ pc' = "done"
    /\ UNCHANGED << loopVars, tool, cfg, params, tpl, cls, req_order, filled_all, all_errs,
                    fillVars, downloadVars, searchVars >>

\* build_inputs returns (filled_all, "\n\n".join(all_errs)) and
\* compose_input_json returns the error text or writes the file.
ComposeReturn ==
    /\ pc = "fill_loop"
    /\ Len(filled_all) = Len(params.l)
    /\ LET err == CombinedErrors(all_errs) IN
         IF Len(err) > 0
         THEN /\ ret' = Ret("param_error", "", NoError, err, Len(filled_all))
              /\ UNCHANGED << out_file, calls >>
         ELSE /\ calls' = Append(calls, CallRec("write_output", NoBody, << >>, << >>))
              /\ out_file' = FileWith(filled_all)
              /\ ret' = Ret("generated", "", NoError, err, Len(filled_all))
    /\ pc' = "done"
    /\ UNCHANGED << loopVars, tool, cfg, params, tpl, cls, req_order, filled_all, all_errs,
                    fillVars, downloadVars, searchVars >>

(***************************************************************************)
(* search_dockstore(config) of bioos_mcp_server and dockstore_search       *)
(* (handle_search) of dockstore_mcp_server.                                *)
(***************************************************************************)
CallSearch ==
    /\ pc = "idle"
    /\ \/ /\ tool' = "search_dockstore"
          /\ \E q \in SearchQueries, n \in TopNs, t \in QueryTypes, g \in BOOLEAN :
                config' = [query |-> q, top_n |-> n, query_type |-> t,
                           sentence |-> FALSE, get_files |-> g]
       \/ /\ tool' = "dockstore_search"
          /\ \E q \in HandleQueries, t \in QueryTypes :
                config' = [query |-> q, top_n |-> 0, query_type |-> t,
                           sentence |-> FALSE, get_files |-> FALSE]
    /\ pc' = "validate_config"
    /\ UNCHANGED << loopVars, composeVars, fillVars, downloadVars, queries, body, results, reranked, rerank_resp, calls, ret >>

\* DockstoreSearchConfig.validate_config / __post_init__.  dockstore_search is
\* modelled for requests without get_files, the ones handle_search takes.
ValidateConfig ==
    /\ pc = "validate_config"
    /\ IF (Len(config.query) = 0 /\ ~config.get_files)
          \/ config.query_type \notin ALLOWED_QUERY_TYPES
       THEN /\ pc' = "done"
            /\ ret' = Rejected("ValueError", NoError)
       ELSE /\ pc' = IF tool = "search_dockstore" THEN "build_queries" ELSE "handle_search"
            /\ ret' = ret
    /\ UNCHANGED << loopVars, tool, composeVars, fillVars, downloadVars, searchVars, calls >>

\* Mutant: the backend request is issued a second time.
SearchBuild_IssuedTwice ==
    /\ pc = "build_queries"
    /\ LET qs == BuildQueries(config.query)
           b  == build_search_body(qs, config.sentence, config.query_type)
       IN  IF Len(qs) = 0
           THEN /\ ret' = SearchError("empty_query", "")
                /\ pc' = "done"
                /\ UNCHANGED << queries, body, calls >>
           ELSE /\ queries' = qs
                /\ body' = b
                /\ calls' = calls \o << CallRec("backend_search", b, << >>, << >>),
                                       CallRec("backend_search", b, << >>, << >>) >>
                /\ pc' = "await_search"
                /\ ret' = ret
    /\ UNCHANGED << loopVars, tool, composeVars, fillVars, downloadVars, config, results, reranked, rerank_resp >>

\* search_dockstore up to the await of client.search: the queries, the
\* empty-query return, the body and the request to the backend.
SearchBuild ==
    /\ pc = "build_queries"
    /\ LET qs == BuildQueries(config.query)
           b  == build_search_body(qs, config.sentence, config.query_type)
       IN  IF Len(qs) = 0
           THEN /\ ret' = SearchError("empty_query", "")
                /\ pc' = "done"
                /\ UNCHANGED << queries, body, calls >>
           ELSE /\ queries' = qs
                /\ body' = b
                /\ calls' = Append(calls, CallRec("backend_search", b, << >>, << >>))
                /\ pc' = "await_search"
                /\ ret' = ret
    /\ UNCHANGED << loopVars, tool, composeVars, fillVars, downloadVars, config, results, reranked, rerank_resp >>

\* Mutant: the rerank request is made for an answer without hits too.
SearchAnswer_RerankWithoutHits ==
    /\ pc = "await_search"
    /\ \/ /\ ret' = SearchError("timeout", "TimeoutError")
          /\ pc' = "done"
          /\ UNCHANGED << results, calls >>
       \/ /\ ret' = SearchError("search_failed", "AttributeError")
          /\ pc' = "done"
          /\ UNCHANGED << results, calls >>
       \/ \E h \in HitLists :
             /\ results' = [answered |-> TRUE, hits |-> h]
             /\ IF \E i \in 1..Len(config.query) : Len(config.query[i]) < 3
                THEN /\ ret' = SearchError("search_failed", "IndexError")
                     /\ pc' = "done"
                     /\ calls' = calls
                ELSE /\ calls' = Append(calls,
                                   CallRec("rerank", NoBody, UserQuery(config.query),
                                           [i \in 1..Len(h) |-> HitText(h[i])]))
                     /\ pc' = "await_rerank"
                     /\ ret' = ret
    /\ UNCHANGED << loopVars, tool, composeVars, fillVars, downloadVars, config, queries, body, reranked, rerank_resp >>

\* Mutant: a failed request is taken for an answer without hits.
SearchAnswer_FailureAsNoHits ==
    /\ pc = "await_search"
    /\ \/ /\ ret' = SearchError("timeout", "TimeoutError")
          /\ pc' = "done"
          /\ UNCHANGED << results, calls >>
       \/ /\ ret' = SearchError("no_hits", "")
          /\ pc' = "done"
          /\ UNCHANGED << results, calls >>
       \/ \E h \in HitLists :
             /\ results' = [answered |-> TRUE, hits |-> h]
             /\ IF Len(h) = 0
                THEN /\ ret' = SearchError("no_hits", "")
                     /\ pc' = "done"
                     /\ calls' = calls
                ELSE IF \E i \in 1..Len(config.query) : Len(config.query[i]) < 3
                THEN /\ ret' = SearchError("search_failed", "IndexError")
                     /\ pc' = "done"
                     /\ calls' = calls
                ELSE /\ calls' = Append(calls,
                                   CallRec("rerank", NoBody, UserQuery(config.query),
                                           [i \in 1..Len(h) |-> HitText(h[i])]))
                     /\ pc' = "await_rerank"
                     /\ ret' = ret
    /\ UNCHANGED << loopVars, tool, composeVars, fillVars, downloadVars, config, queries, body, reranked, rerank_resp >>

\* The await of client.search ends: wait_for times out, search returns None
\* after a failed request (results.get then raises AttributeError), or the
\* backend answers with hits; with hits, the texts and the user query are
\* built (q[2] raises IndexError on a shorter item) and the rerank request
\* is handed to the executor.
SearchAnswer ==
    /\ pc = "await_search"
    /\ \/ /\ ret' = SearchError("timeout", "TimeoutError")
          /\ pc' = "done"
          /\ UNCHANGED << results, calls >>
       \/ /\ ret' = SearchError("search_failed", "AttributeError")
          /\ pc' = "done"
          /\ UNCHANGED << results, calls >>
       \/ \E h \in HitLists :
             /\ results' = [answered |-> TRUE, hits |-> h]
             /\ IF Len(h) = 0
                THEN /\ ret' = SearchError("no_hits", "")
                     /\ pc' = "done"
                     /\ calls' = calls
                ELSE IF \E i \in 1..Len(config.query) : Len(config.query[i]) < 3
                THEN /\ ret' = SearchError("search_failed", "IndexError")
                     /\ pc' = "done"
                     /\ calls' = calls
                ELSE /\ calls' = Append(calls,
                                   CallRec("rerank", NoBody, UserQuery(config.query),
                                           [i \in 1..Len(h) |-> HitText(h[i])]))
                     /\ pc' = "await_rerank"
                     /\ ret' = ret
    /\ UNCHANGED << loopVars, tool, composeVars, fillVars, downloadVars, config, queries, body, reranked, rerank_resp >>

\* top_hits = [hits[item["index"]] for item in reranked]; a negative index
\* counts from the end of hits.
TopHits(rr, hits) ==
    [k \in 1..Len(rr) |->
        IF rr[k].index >= 0 THEN hits[rr[k].index + 1]
        ELSE hits[Len(hits) + rr[k].index + 1]]

\* The link lines of format_results as dockstore_search_bark.py has it, by
\* the names they show: the hits sorted by their backend _score, descending,
\* and the first 5 of them.
format_results_links(hits) ==
    LET byScore == SortedDesc([k \in 1..Len(hits) |-> [index |-> k, score |-> hits[k]._score]])
        shown   == Prefix(byScore, 5)
    IN  [k \in 1..Len(shown) |->
            IF hits[shown[k].index]._source.workflowName # ""
            THEN hits[shown[k].index]._source.workflowName
            ELSE hits[shown[k].index]._source.name]

\* What follows `reranked`: top_hits, then client.format_results called with
\* output_full=False; a keyword the method does not take raises TypeError,
\* which the outer except turns into an error return.
AfterRerank(rr) ==
    IF \E k \in 1..Len(rr) : ~IndexOk(rr[k].index, Len(results.hits))
    THEN SearchError("search_failed", "IndexError")
    ELSE IF FormatResultsKeyword # "output_full"
    THEN SearchError("search_failed", "TypeError")
    ELSE Ret("results", "", NoError, << >>, Len(rr))

\* The executor's RERANKER.rerank ends: it raised RuntimeError (request or
\* decoding failed) and the fallback ranking is used, or the service
\* answered and rerank sorted and cut the answer (or raised on it).
RerankAnswer ==
    /\ pc = "await_rerank"
    /\ \/ LET rr == fallback(results.hits, config.top_n) IN
            /\ rerank_resp' = RerankFailed
            /\ reranked' = rr
            /\ ret' = AfterRerank(rr)
       \/ \E ans \in RerankAnswers(Len(results.hits)) :
            LET r == rerank(ans, [i \in 1..Len(results.hits) |-> HitText(results.hits[i])],
                            config.top_n)
            IN  /\ rerank_resp' = RerankAnswered(ans)
                /\ IF r.exc # "none"
                   THEN /\ reranked' = reranked
                        /\ ret' = SearchError("search_failed", r.exc)
                   ELSE /\ reranked' = r.ranked
                        /\ ret' = AfterRerank(r.ranked)
    /\ pc' = "done"
    /\ UNCHANGED << loopVars, tool, composeVars, fillVars, downloadVars, config, queries, body, results, calls >>

\* handle_search up to the await of client.search; unpacking an item that
\* has no 3 elements raises ValueError, which dockstore_search returns as text.
HandleSearch ==
    /\ pc = "handle_search"
    /\ IF \E i \in 1..Len(config.query) : Len(config.query[i]) # 3
       THEN /\ ret' = Ret("text", "ValueError", NoError, << >>, 0)
            /\ pc' = "done"
            /\ UNCHANGED << queries, body, calls >>
       ELSE LET qs == HandleSearchQueries(config.query, config.query_type)
                b  == build_search_body(qs, config.sentence, "match_phrase")
            IN  /\ queries' = qs
                /\ body' = b
                /\ calls' = Append(calls, CallRec("backend_search", b, << >>, << >>))
                /\ pc' = "await_handle_search"
                /\ ret' = ret
    /\ UNCHANGED << loopVars, tool, composeVars, fillVars, downloadVars, config, results, reranked, rerank_resp >>

\* The await ends: search returned None, or the answer is formatted, saved
\* to dockstore_results.json and returned.
HandleSearchAnswer ==
    /\ pc = "await_handle_search"
    /\ \/ /\ ret' = Ret("text", "", [err |-> "no_results", n |-> JNull, len |-> 0], << >>, 0)
          /\ UNCHANGED << results, calls >>
       \/ \E h \in HitLists :
             /\ results' = [answered |-> TRUE, hits |-> h]
             /\ calls' = Append(calls, CallRec("write_results", NoBody, << >>, << >>))
             /\ ret' = Ret("text", "", NoError, << >>, Len(h))
    /\ pc' = "done"
    /\ UNCHANGED << loopVars, tool, composeVars, fillVars, downloadVars, config, queries, body, reranked, rerank_resp >>

(***************************************************************************)
(* dockstore_workflow_download(config) of dockstore_mcp_server, with       *)
(* WorkflowSelector.extract_wdl_files and save_wdl_files.  A file path is  *)
(* its directories, the stem and the extension of its last component.      *)
(***************************************************************************)
SourceFile(dirs, stem, ext, content) ==
    [path |-> [dirs |-> dirs, stem |-> stem, ext |-> ext], content |-> content]
\* file_path.endswith(".wdl")
IsWdl(path) == path.ext = "wdl"
\* Path(file_path).name
PathName(path) == << path.stem, path.ext >>

\* The sourceFiles of the versions a workflow may have.
VersionCatalogue ==
    << << SourceFile(<< >>, "main", "wdl", "v1"),
          SourceFile(<< "tasks" >>, "align", "wdl", "A") >>,
       << SourceFile(<< >>, "main", "wdl", "v2") >>,
       << SourceFile(<< "lib" >>, "align", "wdl", "B"),
          SourceFile(<< >>, "Dockerfile", "", "FROM") >>,
       << SourceFile(<< >>, "empty", "wdl", "") >>,
       << >> >>
\* The workflows of the results file: workflowVersions of up to MaxVersions versions.
Workflows == UNION { [1..n -> Range(VersionCatalogue)] : n \in 0..MaxVersions }

\* WorkflowSelector.extract_wdl_files: the .wdl files with content, version
\* after version, file after file.
RECURSIVE extract_wdl_files(_)
extract_wdl_files(versions) ==
    IF Len(versions) = 0 THEN << >>
    ELSE SelectSeq(Head(versions), LAMBDA f : IsWdl(f.path) /\ f.content # "")
             \o extract_wdl_files(Tail(versions))

\* WorkflowSelector.save_wdl_files: each pair written to wdl_dir / name, one
\* after the other, a later write replacing the file of the same name.
RECURSIVE save_wdl_files(_, _)
save_wdl_files(files, dir) ==
    IF Len(files) = 0 THEN dir
    ELSE save_wdl_files(Tail(files), Put(dir, PathName(Head(files).path), Head(files).content))

\* What dockstore_workflow_download returns: a text, `what` saying which.
DownloadText(what, count) ==
    Ret("text", "", [err |-> what, n |-> JNull, len |-> 0], << >>, count)

CallDownload ==
    /\ pc = "idle"
    /\ tool' = "dockstore_workflow_download"
    /\ pc' = "load_results"
    /\ UNCHANGED << loopVars, composeVars, fillVars, searchVars, downloadVars, calls, ret >>

\* The results file is opened and loaded and the workflow looked up: the
\* file cannot be read, the workflow is not in it, or it is found.
LoadResults ==
    /\ pc = "load_results"
    /\ calls' = Append(calls, CallRec("read_results", NoBody, << >>, << >>))
    /\ \/ /\ ret' = DownloadText("download_error", 0)
          /\ pc' = "done"
          /\ workflow' = workflow
       \/ /\ ret' = DownloadText("not_found", 0)
          /\ pc' = "done"
          /\ workflow' = workflow
       \/ /\ workflow' \in Workflows
          /\ pc' = "extract"
          /\ ret' = ret
    /\ UNCHANGED << loopVars, tool, composeVars, fillVars, searchVars, wdl_files, wdl_dir >>

ExtractWdl ==
    /\ pc = "extract"
    /\ wdl_files' = extract_wdl_files(workflow)
    /\ IF Len(extract_wdl_files(workflow)) = 0
       THEN /\ ret' = DownloadText("no_wdl", 0)
            /\ pc' = "done"
       ELSE /\ ret' = ret
            /\ pc' = "save"
    /\ UNCHANGED << loopVars, tool, composeVars, fillVars, searchVars, workflow, wdl_dir, calls >>

\* save_wdl_files and the success text with len(wdl_files); mkdir or a write
\* may fail, which the tool reports as a download error.
SaveWdl ==
    /\ pc = "save"
    /\ calls' = Append(calls, CallRec("write_wdl", NoBody, << >>, << >>))
    /\ \/ /\ ret' = DownloadText("download_error", 0)
          /\ wdl_dir' = wdl_dir
       \/ /\ wdl_dir' = save_wdl_files(wdl_files, wdl_dir)
          /\ ret' = DownloadText("downloaded", Len(wdl_files))
    /\ pc' = "done"
    /\ UNCHANGED << loopVars, tool, composeVars, fillVars, searchVars, workflow, wdl_files >>

Next ==
    \/ CallCompose
    \/ Normalize
    \/ ValidateFields
    \/ ReadTemplate
    \/ FillNext
    \/ ComposeReturn
    \/ CallSearch
    \/ ValidateConfig
    \/ SearchBuild
    \/ SearchAnswer
    \/ RerankAnswer
    \/ HandleSearch
    \/ HandleSearchAnswer
    \/ CallDownload
    \/ LoadResults
    \/ ExtractWdl
    \/ SaveWdl

Spec == Init /\ [][Next]_vars

(***************************************************************************)
(* The event loop with two tool invocations in flight.  FastMCP runs every *)
(* tool coroutine on one asyncio loop: a coroutine keeps the loop's thread *)
(* until it awaits.  search_dockstore awaits its backend request and runs  *)
(* RERANKER.rerank in the executor; submit_workflow calls subprocess.run   *)
(* in the coroutine itself.  `loop` is 0 when the loop's thread is free to *)
(* resume any invocation, and t while invocation t holds it in a call that *)
(* does not await.                                                         *)
(***************************************************************************)
\* Mutant: the hits are kept in one place that all invocations share.
TaskHits_Shared(t) == tasks[1].hits

\* The hits the rerank stage of invocation t works on: the local `hits`.
TaskHits(t) == tasks[t].hits

\* What search_dockstore returns once `reranked` is known: top_hits, then
\* format_results called with output_full=False.
after_rerank(rr, hits) ==
    IF \E k \in 1..Len(rr) : ~IndexOk(rr[k].index, Len(hits))
    THEN SearchError("search_failed", "IndexError")
    ELSE IF FormatResultsKeyword # "output_full"
    THEN SearchError("search_failed", "TypeError")
    ELSE Ret("results", "", NoError, << >>, Len(rr))

\* search_dockstore run from its first line to its return on one config, one
\* end of the backend request (backend: "timeout", "none" for a failed
\* request, "answered" with hits) and one end of the rerank request.
search_dockstore_outcome(conf, backend, hits, rr) ==
    IF Len(BuildQueries(conf.query)) = 0 THEN SearchError("empty_query", "")
    ELSE IF backend = "timeout" THEN SearchError("timeout", "TimeoutError")
    ELSE IF backend = "none" THEN SearchError("search_failed", "AttributeError")
    ELSE IF Len(hits) = 0 THEN SearchError("no_hits", "")
    ELSE IF \E i \in 1..Len(conf.query) : Len(conf.query[i]) < 3
    THEN SearchError("search_failed", "IndexError")
    ELSE IF rr.status = "failed" THEN after_rerank(fallback(hits, conf.top_n), hits)
    ELSE LET r == rerank(rr.scores, [i \in 1..Len(hits) |-> HitText(hits[i])], conf.top_n)
         IN  IF r.exc # "none" THEN SearchError("search_failed", r.exc)
             ELSE after_rerank(r.ranked, hits)

\* The configs of the invocations: one valid condition; a valid condition
\* and a short item; only an item that is skipped.
LoopConfigs ==
    { [query |-> q, top_n |-> n, query_type |-> "match_phrase",
       sentence |-> FALSE, get_files |-> FALSE] :
        q \in { << << "name", "AND", "gatk" >> >>,
                << << "description", "OR", "cnv" >>, << "name", "AND" >> >>,
                << << "name", "AND", "gatk", "extra" >> >> },
        n \in { 1, 2 } }

\* The MCP client calls a tool; the call becomes a task of the loop.
LoopCall(t) ==
    /\ tasks[t].pc = "idle"
    /\ \/ \E c \in LoopConfigs :
             tasks' = [tasks EXCEPT ![t].tool = "search_dockstore", ![t].config = c,
                                    ![t].pc = "ready"]
       \/ tasks' = [tasks EXCEPT ![t].tool = "submit_workflow", ![t].pc = "ready"]
    /\ UNCHANGED << loop, RERANKER >>
    /\ UNCHANGED << pc, tool, composeVars, fillVars, searchVars, downloadVars, calls, ret >>

\* search_dockstore from its first line to `await asyncio.wait_for(...)`.
LoopSearchStart(t) ==
    /\ loop = 0
    /\ tasks[t].pc = "ready"
    /\ tasks[t].tool = "search_dockstore"
    /\ IF Len(BuildQueries(tasks[t].config.query)) = 0
       THEN tasks' = [tasks EXCEPT ![t].ret = SearchError("empty_query", ""),
                                   ![t].pc = "done"]
       ELSE tasks' = [tasks EXCEPT ![t].pc = "await_search"]
    /\ UNCHANGED << loop, RERANKER >>
    /\ UNCHANGED << pc, tool, composeVars, fillVars, searchVars, downloadVars, calls, ret >>

\* The await of the backend request ends and the coroutine runs on to
\* `await loop.run_in_executor(...)` or to a return.
LoopSearchAnswer(t) ==
    /\ loop = 0
    /\ tasks[t].pc = "await_search"
    /\ \/ tasks' = [tasks EXCEPT ![t].backend = "timeout",
                                 ![t].ret = SearchError("timeout", "TimeoutError"),
                                 ![t].pc = "done"]
       \/ tasks' = [tasks EXCEPT ![t].backend = "none",
                                 ![t].ret = SearchError("search_failed", "AttributeError"),
                                 ![t].pc = "done"]
       \/ \E h \in HitLists :
             IF Len(h) = 0
             THEN tasks' = [tasks EXCEPT ![t].backend = "answered", ![t].hits = h,
                                         ![t].ret = SearchError("no_hits", ""),
                                         ![t].pc = "done"]
             ELSE IF \E i \in 1..Len(tasks[t].config.query) : Len(tasks[t].config.query[i]) < 3
             THEN tasks' = [tasks EXCEPT ![t].backend = "answered", ![t].hits = h,
                                         ![t].ret = SearchError("search_failed", "IndexError"),
                                         ![t].pc = "done"]
             ELSE tasks' = [tasks EXCEPT ![t].backend = "answered", ![t].hits = h,
                                         ![t].pc = "await_rerank"]
    /\ UNCHANGED << loop, RERANKER >>
    /\ UNCHANGED << pc, tool, composeVars, fillVars, searchVars, downloadVars, calls, ret >>

\* The executor's RERANKER.rerank ends (it posted to RERANKER.api_url) and
\* the coroutine runs to its return.
LoopRerankAnswer(t) ==
    /\ loop = 0
    /\ tasks[t].pc = "await_rerank"
    /\ RERANKER.api_url = "rerank"
    /\ \/ tasks' = [tasks EXCEPT ![t].rr = RerankFailed,
                       ![t].ret = after_rerank(fallback(TaskHits(t), tasks[t].config.top_n),
                                               TaskHits(t)),
                       ![t].pc = "done"]
       \/ \E ans \in RerankAnswers(Len(tasks[t].hits)) :
             LET r == rerank(ans, [i \in 1..Len(TaskHits(t)) |-> HitText(TaskHits(t)[i])],
                             tasks[t].config.top_n)
             IN  tasks' = [tasks EXCEPT ![t].rr = RerankAnswered(ans),
                              ![t].ret = IF r.exc # "none"
                                         THEN SearchError("search_failed", r.exc)
                                         ELSE after_rerank(r.ranked, TaskHits(t)),
                              ![t].pc = "done"]
    /\ UNCHANGED << loop, RERANKER >>
    /\ UNCHANGED << pc, tool, composeVars, fillVars, searchVars, downloadVars, calls, ret >>

\* submit_workflow up to subprocess.run: build_bw_cmd raises (no
\* credentials) and the text of the exception is returned, or the bw process
\* is started and the coroutine waits for it inside subprocess.run.
LoopSubmitRun(t) ==
    /\ loop = 0
    /\ tasks[t].pc = "ready"
    /\ tasks[t].tool = "submit_workflow"
    /\ \/ /\ tasks' = [tasks EXCEPT ![t].ret = Ret("text", "Exception", NoError, << >>, 0),
                                    ![t].pc = "done"]
          /\ loop' = loop
       \/ /\ tasks' = [tasks EXCEPT ![t].pc = "subprocess"]
          /\ loop' = t
    /\ RERANKER' = RERANKER
    /\ UNCHANGED << pc, tool, composeVars, fillVars, searchVars, downloadVars, calls, ret >>

\* The bw process exits; subprocess.run returns or raises
\* CalledProcessError, and submit_workflow returns its text.
LoopSubmitDone(t) ==
    /\ loop = t
    /\ tasks[t].pc = "subprocess"
    /\ \/ tasks' = [tasks EXCEPT ![t].ret = Ret("text", "", NoError, << >>, 0),
                                 ![t].pc = "done"]
       \/ tasks' = [tasks EXCEPT ![t].ret = Ret("text", "CalledProcessError", NoError, << >>, 0),
                                 ![t].pc = "done"]
    /\ loop' = 0
    /\ RERANKER' = RERANKER
    /\ UNCHANGED << pc, tool, composeVars, fillVars, searchVars, downloadVars, calls, ret >>

InitLoop ==
    /\ Idle
    /\ pc = "loop"
    /\ tpl = EmptyDict

NextLoop ==
    \/ \E t \in Tasks : LoopCall(t)
    \/ \E t \in Tasks : LoopSearchStart(t)
    \/ \E t \in Tasks : LoopSearchAnswer(t)
    \/ \E t \in Tasks : LoopRerankAnswer(t)
    \/ \E t \in Tasks : LoopSubmitRun(t)
    \/ \E t \in Tasks : LoopSubmitDone(t)

SpecLoop == InitLoop /\ [][NextLoop]_vars

(***************************************************************************)
(* SpecClassify: classify applied to every template of ClassifyTemplates.  *)
(***************************************************************************)
InitClassify ==
    /\ Idle
    /\ pc = "classify"
    /\ tpl \in ClassifyTemplates

DoClassify ==
    /\ pc = "classify"
    /\ cls' = classify(tpl)
    /\ pc' = IF classify(tpl).raised THEN "raised" ELSE "classified"
    /\ UNCHANGED << loopVars, tool, cfg, params, tpl, req_order, filled_all, all_errs, out_file,
                    fillVars, downloadVars, searchVars, calls, ret >>

NextClassify == DoClassify

SpecClassify == InitClassify /\ [][NextClassify]_vars

(***************************************************************************)
(* SpecFill: classify, then fill_one_sample, on every template of          *)
(* FillTemplates and every sample of Samples.                              *)
(***************************************************************************)
InitFill ==
    /\ Idle
    /\ pc = "fill_classify"
    /\ tpl \in FillTemplates

FillClassify ==
    /\ pc = "fill_classify"
    /\ cls' = classify(tpl)
    /\ req_order' \in Orderings(classify(tpl).required)
    /\ sample' \in Samples
    /\ pc' = "fill_sample"
    /\ UNCHANGED << loopVars, tool, cfg, params, tpl, filled_all, all_errs, out_file, filled,
                    errors, downloadVars, searchVars, calls, ret >>

FillSample ==
    /\ pc = "fill_sample"
    /\ \E extra_iter \in Orderings(DOMAIN sample \ DOMAIN tpl) :
         LET r == fill_one_sample(sample, req_order, cls.opt_def, cls.opt_nodef,
                                  DOMAIN tpl, extra_iter)
         IN  /\ filled' = r.filled
             /\ errors' = r.errors
    /\ pc' = "filled"
    /\ UNCHANGED << loopVars, tool, composeVars, sample, downloadVars, searchVars, calls, ret >>

NextFill == FillClassify \/ FillSample

SpecFill == InitFill /\ [][NextFill]_vars

(***************************************************************************)
(* Properties of fill_one_sample (checked under SpecFill).                 *)
(***************************************************************************)
MissingErrors == { i \in DOMAIN errors : errors[i].tok = "missing" }
ExtraErrorIdx == { i \in DOMAIN errors : errors[i].tok = "extra" }
ExtraOfSample == DOMAIN sample \ DOMAIN tpl
Restrict(d, K) == [k \in DOMAIN d \cap K |-> d[k]]

\* C2: the filled map holds exactly the required keys the sample has, every
\* optional-with-default key, and the optional-without-default keys the
\* sample has; each value is the sample's when the sample has the key,
\* otherwise the template default; an empty sample against a template of
\* defaulted fields only gives exactly the defaults and no errors.
C2_FilledKeysAndValues ==
    pc = "filled" =>
        /\ DOMAIN filled = (cls.required \cap DOMAIN sample)
                             \cup DOMAIN cls.opt_def
                             \cup (cls.opt_nodef \cap DOMAIN sample)
        /\ \A k \in DOMAIN filled :
               filled[k] = IF k \in DOMAIN sample THEN sample[k] ELSE cls.opt_def[k]
        /\ (sample = EmptyDict /\ DOMAIN cls.opt_def = DOMAIN tpl)
               => filled = cls.opt_def /\ errors = << >>

\* C2 witness: an empty sample filled against a template that has defaulted
\* fields only, and has at least one.
C2_Witness ==
    /\ pc = "filled"
    /\ sample = EmptyDict
    /\ DOMAIN tpl # {}
    /\ DOMAIN cls.opt_def = DOMAIN tpl
    /\ \A k \in DOMAIN tpl : filled[k] = JInt(4)

\* C3: every required field the sample lacks gives exactly one missing-field
\* error naming it and is omitted from the filled map; present required
\* fields give none; the filled map is returned all the same.
C3_MissingRequired ==
    pc = "filled" =>
        /\ \A k \in cls.required :
               IF k \in DOMAIN sample
               THEN ~ \E i \in MissingErrors : k \in Range(errors[i].keys)
               ELSE /\ Cardinality({ i \in MissingErrors : errors[i].keys = << k >> }) = 1
                    /\ k \notin DOMAIN filled
        /\ Cardinality(MissingErrors) = Cardinality(cls.required \ DOMAIN sample)

\* C3 witness: two required fields, one missing and one present, the present
\* one filled.
C3_Witness ==
    /\ pc = "filled"
    /\ \E k1, k2 \in cls.required :
         /\ k1 \notin DOMAIN sample
         /\ k2 \in DOMAIN sample
         /\ k2 \in DOMAIN filled
         /\ Cardinality(MissingErrors) = 1

\* C4: a sample with keys outside the template gives exactly one extra-field
\* error, naming all of them, and none when there are none; extra keys never
\* enter the filled map, and the template fields are filled, and the
\* missing-field errors raised, as for the sample without its extra keys.
C4_ExtraFields ==
    pc = "filled" =>
        LET clean == fill_one_sample(Restrict(sample, DOMAIN tpl), req_order,
                                     cls.opt_def, cls.opt_nodef, DOMAIN tpl, << >>)
        IN  /\ Cardinality(ExtraErrorIdx) = IF ExtraOfSample = {} THEN 0 ELSE 1
            /\ \A i \in ExtraErrorIdx :
                   /\ Range(errors[i].keys) = ExtraOfSample
                   /\ Len(errors[i].keys) = Cardinality(ExtraOfSample)
            /\ DOMAIN filled \cap ExtraOfSample = {}
            /\ filled = clean.filled
            /\ SelectSeq(errors, LAMBDA e : e.tok # "extra") = clean.errors

\* C4 witness: a sample with two extra keys, a filled template field and one
\* combined error.
C4_Witness ==
    /\ pc = "filled"
    /\ Cardinality(ExtraOfSample) >= 2
    /\ DOMAIN filled # {}
    /\ Cardinality(ExtraErrorIdx) = 1

(***************************************************************************)
(* Properties of classify (checked under SpecClassify).                    *)
(***************************************************************************)
AllSpace(s, i, j) == \A k \in i..j : IsSpace(s[k])
WordIs(s, a, w) == a + Len(w) - 1 <= Len(s) /\ Lower(SubSeq(s, a, a + Len(w) - 1)) = w
KwOptional == <<"o","p","t","i","o","n","a","l">>
KwDefault == <<"d","e","f","a","u","l","t">>

\* The index just after the keyword of an "(optional" that starts at i.
C7_AfterOptional(s, i) ==
    IF s[i] # "(" THEN {}
    ELSE { a + 8 : a \in { a \in i + 1..Len(s) :
                              WordIs(s, a, KwOptional) /\ AllSpace(s, i + 1, a - 1) } }

\* The indices of a character c that follows index b after whitespace only.
C7_Then(s, b, c) == { j \in b..Len(s) : s[j] = c /\ AllSpace(s, b, j - 1) }

\* "(optional)" at i.
C7_PlainAt(s, i) == \E b \in C7_AfterOptional(s, i) : C7_Then(s, b, ")") # {}

\* The spans <<x1, x2>> of the default's text, between the "=" and the next
\* ")", of an "(optional, default = ...)" at i.
C7_DefaultSpans(s, i) ==
    UNION { UNION { UNION { UNION {
        { << e + 1, j - 1 >> :
            j \in { j \in e + 2..Len(s) :
                       s[j] = ")" /\ \A k \in e + 1..j - 1 : s[k] # ")" } }
        : e \in C7_Then(s, d + 7, "=") }
        : d \in { d \in c + 1..Len(s) :
                    WordIs(s, d, KwDefault) /\ AllSpace(s, c + 1, d - 1) } }
        : c \in C7_Then(s, b, ",") }
        : b \in C7_AfterOptional(s, i) }

C7_HasDefaultAt(s, i) == C7_DefaultSpans(s, i) # {}
C7_Starts(s) == { i \in 1..Len(s) : C7_PlainAt(s, i) \/ C7_HasDefaultAt(s, i) }
C7_First(s) == CHOOSE i \in C7_Starts(s) : \A j \in C7_Starts(s) : i <= j

\* X: the default's text with surrounding whitespace, then quotes, removed.
C7_X(s) ==
    LET x == CHOOSE x \in C7_DefaultSpans(s, C7_First(s)) : TRUE
    IN  StripQuotes(Strip(SubSeq(s, x[1], x[2])))

C7_Value(X) ==
    IF Lower(X) = <<"t","r","u","e">> THEN JBool(TRUE)
    ELSE IF Lower(X) = <<"f","a","l","s","e">> THEN JBool(FALSE)
    ELSE IF \E i \in DOMAIN X : X[i] = "."
         THEN (IF PyFloat(X).ok THEN PyFloat(X).val ELSE JStr(X))
    ELSE (IF PyInt(X).ok THEN PyInt(X).val ELSE JStr(X))

\* C7: a spec string without the "(optional ...)" annotation is Required,
\* "(optional)" is OptionalWithoutDefault, "(optional, default = X)" is
\* OptionalWithDefault with the value the chain true/false, decimal,
\* integer, else the string X gives; every field is in exactly one class
\* and classify does not raise on a template of strings.
C7_ClassifyRule ==
    (pc \in {"classified", "raised"} /\ \A k \in DOMAIN tpl : tpl[k].kind = "str") =>
        /\ pc = "classified"
        /\ ~cls.raised
        /\ cls.required \cup DOMAIN cls.opt_def \cup cls.opt_nodef = DOMAIN tpl
        /\ cls.required \cap DOMAIN cls.opt_def = {}
        /\ cls.required \cap cls.opt_nodef = {}
        /\ cls.opt_nodef \cap DOMAIN cls.opt_def = {}
        /\ \A k \in DOMAIN tpl :
               LET s == tpl[k].s
                   annotated == C7_Starts(s) # {}
               IN  /\ k \in cls.required <=> ~annotated
                   /\ k \in cls.opt_nodef <=>
                          (annotated /\ C7_PlainAt(s, C7_First(s)))
                   /\ k \in DOMAIN cls.opt_def <=>
                          (annotated /\ C7_HasDefaultAt(s, C7_First(s)))
                   /\ k \in DOMAIN cls.opt_def => cls.opt_def[k] = C7_Value(C7_X(s))

\* C7 witness: a template classified with a required field and a defaulted
\* field whose decimal parse failed and was kept as a string.
C7_Witness ==
    /\ pc = "classified"
    /\ cls.required # {}
    /\ \E k \in DOMAIN cls.opt_def :
         cls.opt_def[k] = JStr(<<"1", ".", "2", ".", "3">>)

(***************************************************************************)
(* Properties of compose_input_json and the search tools (checked under    *)
(* Spec).                                                                  *)
(***************************************************************************)
Composing == tool = "compose_input_json"
Normalized == Composing /\ pc \notin {"idle", "normalize"}
\* build_inputs has been entered.
InBuildInputs == Composing /\ (pc \in {"build_inputs", "fill_loop"} \/ calls # << >>)
\* build_inputs has returned, or is about to.
BuildInputsReturns ==
    Composing /\ (\/ pc = "fill_loop" /\ Len(filled_all) = Len(params.l)
                  \/ ret.kind \in {"param_error", "generated"})
CountOf(c) == c.sample_count.n
PositiveCount(c) == c.sample_count.kind = "int" /\ c.sample_count.n > 0

\* C1: for a positive sample_count N, a dict becomes N copies of itself, a
\* list of N dicts is used as it is, a list of one dict with N > 1 becomes N
\* copies of it, a list of any other length is rejected with a count-mismatch
\* error carrying N and the length, any other shape is rejected; and
\* build_inputs is only ever entered with a list of exactly N samples.
C1_NormalizedBatch ==
    /\ (Normalized /\ PositiveCount(cfg)) =>
         LET N   == CountOf(cfg)
             raw == cfg.params
         IN  /\ raw.shape = "dict" =>
                   /\ ret.kind # "rejected"
                   /\ params.shape = "list"
                   /\ Len(params.l) = N
                   /\ \A i \in 1..N : params.l[i] = DictItem(raw.d)
             /\ (raw.shape = "list" /\ Len(raw.l) = N
                   /\ \A i \in 1..N : raw.l[i].isdict) =>
                   /\ ret.kind # "rejected"
                   /\ params = raw
             /\ (raw.shape = "list" /\ Len(raw.l) = 1 /\ N > 1 /\ raw.l[1].isdict) =>
                   /\ ret.kind # "rejected"
                   /\ params.shape = "list"
                   /\ Len(params.l) = N
                   /\ \A i \in 1..N : params.l[i] = raw.l[1]
             /\ (raw.shape = "list" /\ Len(raw.l) \notin {1, N}) =>
                   /\ ret.kind = "rejected"
                   /\ ret.error = CountMismatch(cfg.sample_count, Len(raw.l))
             /\ raw.shape = "other" => ret.kind = "rejected"
    /\ InBuildInputs =>
         /\ PositiveCount(cfg)
         /\ params.shape = "list"
         /\ Len(params.l) = CountOf(cfg)
         /\ \A i \in 1..Len(params.l) : params.l[i].isdict

\* C1 witness: build_inputs entered with the copies of a list of one dict.
C1_Witness ==
    /\ Composing
    /\ pc = "build_inputs"
    /\ cfg.params.shape = "list"
    /\ Len(cfg.params.l) = 1
    /\ Len(params.l) > 1

\* What fill_one_sample owes sample s under classification c, by C2.
ExpectedFilled(s, c) ==
    [k \in (c.required \cap DOMAIN s) \cup DOMAIN c.opt_def \cup (c.opt_nodef \cap DOMAIN s)
        |-> IF k \in DOMAIN s THEN s[k] ELSE c.opt_def[k]]
\* Whether sample s has a missing required field or a field outside the template.
HasErrors(s, c, t) == (c.required \ DOMAIN s) # {} \/ (DOMAIN s \ DOMAIN t) # {}
BadSamples == { i \in 1..Len(params.l) : HasErrors(params.l[i].d, cls, tpl) }

\* C5: the filled list follows the samples one for one and in order, each
\* map being what its own sample gives, errors or not; once the template is
\* loaded nothing aborts the batch, and build_inputs returns the whole list
\* together with the errors.
C5_BatchKept ==
    /\ (Composing /\ (pc = "fill_loop" \/ ret.kind \in {"param_error", "generated"})) =>
         /\ Len(filled_all) <= Len(params.l)
         /\ \A i \in 1..Len(filled_all) :
                filled_all[i] = ExpectedFilled(params.l[i].d, cls)
    /\ BuildInputsReturns =>
         /\ Len(filled_all) = Len(params.l)
         /\ Len(all_errs) = Cardinality(BadSamples)
    /\ (Composing /\ ret.kind = "raised") => (filled_all = << >> /\ all_errs = << >>)
    /\ (Composing /\ ret.kind = "param_error") =>
         (ret.count = Len(params.l) /\ ret.text = CombinedErrors(all_errs))

\* C5 witness: a batch returned with a sample in error before a sample
\* without, both filled.
C5_Witness ==
    /\ Composing
    /\ ret.kind = "param_error"
    /\ Len(filled_all) >= 2
    /\ 1 \in BadSamples
    /\ 2 \notin BadSamples
    /\ filled_all[1] # EmptyDict
    /\ filled_all[2] # EmptyDict

\* C6: the combined error text build_inputs returns is empty exactly when
\* no sample of the batch has a missing-field or an extra-field error.
C6_EmptyTextIffNoErrors ==
    BuildInputsReturns =>
        /\ (CombinedErrors(all_errs) = << >>) <=> (BadSamples = {})
        /\ ret.kind = "generated" => (ret.text = << >> /\ BadSamples = {})
        /\ ret.kind = "param_error" => (ret.text # << >> /\ BadSamples # {})

\* C6 witness: a batch of several samples returned with an empty text.
C6_Witness ==
    /\ Composing
    /\ ret.kind = "generated"
    /\ ret.text = << >>
    /\ Len(filled_all) > 1

\* The arguments WorkflowInputParams must refuse.
InvalidParams(c) ==
    \/ ~PositiveCount(c)
    \/ c.params.shape = "other"
    \/ /\ c.params.shape = "list"
       /\ \/ Len(c.params.l) # CountOf(c) /\ ~(Len(c.params.l) = 1 /\ CountOf(c) > 1)
          \/ \E i \in 1..Len(c.params.l) : ~c.params.l[i].isdict
\* The conditions of a request that are lists of three elements.
ValidConditions(query) == SelectSeq(query, LAMBDA item : Len(item) = 3)
Searching == tool \in {"search_dockstore", "dockstore_search"}

\* C8: a request WorkflowInputParams must refuse (count mismatch, wrong
\* shape) is rejected before the template is read or anything is written,
\* and a search request without a valid condition ends with the empty-query
\* error (or is refused as a config without conditions) before the backend
\* or the reranker is called.
C8_ValidationBeforeCalls ==
    /\ ret.kind = "rejected" => (calls = << >> /\ out_file = NoFile)
    /\ (Normalized /\ pc # "validate_fields" /\ InvalidParams(cfg)) =>
          (ret.kind = "rejected" /\ pc = "done")
    /\ (Searching /\ ValidConditions(config.query) = << >>) =>
          /\ calls = << >>
          /\ (tool = "search_dockstore" /\ pc = "done") =>
                \/ ret.kind = "rejected"
                \/ ret.kind = "error" /\ ret.error.err = "empty_query"
    /\ (ret.kind = "error" /\ ret.error.err = "empty_query") => calls = << >>

\* C8 witness: a search request whose conditions are all malformed, ended
\* with the empty-query error.
C8_Witness ==
    /\ tool = "search_dockstore"
    /\ pc = "done"
    /\ Len(config.query) > 0
    /\ ret.kind = "error"
    /\ ret.error.err = "empty_query"

\* The field and the term of a condition, as the tool reads its items.
CondField(item) == IF tool = "search_dockstore" THEN item[1] ELSE item[2]
CondTerm(item) == IF tool = "search_dockstore" THEN item[3] ELSE item[1]
\* The same request with every AND turned into OR and every OR into AND.
OtherOperator(op) == IF op = "OR" THEN "AND" ELSE "OR"
WithOtherOperators(query) ==
    [i \in 1..Len(query) |->
        IF Len(query[i]) # 3 THEN query[i]
        ELSE IF tool = "search_dockstore"
        THEN << query[i][1], OtherOperator(query[i][2]), query[i][3] >>
        ELSE << query[i][1], query[i][2], OtherOperator(query[i][3]) >>]
BodyOf(query) ==
    IF tool = "search_dockstore"
    THEN build_search_body(BuildQueries(query), config.sentence, config.query_type)
    ELSE build_search_body(HandleSearchQueries(query, config.query_type),
                           config.sentence, "match_phrase")

DocFields == {"name", "description", "full_workflow_path"}
DocTerms == {"gatk", "cnv"}
Docs == { [index |-> "workflows", matches |-> m] : m \in SUBSET (DocFields \X DocTerms) }

\* C10: the query sent to the backend requires every AND condition to
\* match: a document the body accepts matches each condition whose operator
\* is AND.
C10_AndRequiresAll ==
    (Searching /\ body # NoBody) =>
        \A doc \in Docs :
            Accepts(body, doc) =>
                \A i \in 1..Len(queries) :
                    queries[i].operator = "AND" =>
                        << queries[i].fields[1], queries[i].terms[1] >> \in doc.matches

(***************************************************************************)
(* Properties of the search pipeline (checked under Spec).                 *)
(***************************************************************************)
\* The clause query_type qt owes a condition on (field, term).
ClauseOwed(qt, field, term) ==
    IF qt = "wildcard"
    THEN [clause |-> "wildcard", field |-> field, value |-> << "*", term, "*" >>,
          case_insensitive |-> TRUE,
          boost |-> IF field \in {"full_workflow_path", "tool_path"} THEN 14 ELSE 2]
    ELSE [clause |-> "match", field |-> field, value |-> << term >>,
          case_insensitive |-> FALSE, boost |-> 2]

\* C11: through search_dockstore and through dockstore_search alike, the
\* configured query_type decides every clause of the body sent: wildcard
\* gives case-insensitive wildcard clauses on "*term*" with boost 14 on
\* full_workflow_path and tool_path and 2 elsewhere, match_phrase gives
\* match clauses on (field, term).
C11_QueryTypeDecidesClauses ==
    (Searching /\ body # NoBody) =>
        LET v == ValidConditions(config.query) IN
        /\ Len(body.should) = Len(v)
        /\ \A i \in 1..Len(v) :
              body.should[i] = ClauseOwed(config.query_type, CondField(v[i]), CondTerm(v[i]))

RerankSucceeded ==
    /\ tool = "search_dockstore"
    /\ rerank_resp.status = "answered"
    /\ \A k \in 1..Len(rerank_resp.scores) :
          IndexOk(rerank_resp.scores[k].index, Len(results.hits))
DescendingScores(l) == \A i, j \in 1..Len(l) : i < j => l[i].score >= l[j].score
\* How often pair x occurs in list l.
Occurrences(l, x) == Cardinality({ i \in 1..Len(l) : l[i] = x })

\* C12: after a successful answer of the rerank service, the rerank result
\* holds pairs of the answer, sorted by descending score and cut to top_n:
\* it has min(top_n, number of pairs) elements, so at most top_n, for every
\* top_n the configuration accepts.
C12_SortedAndCutToTopN ==
    RerankSucceeded =>
        /\ DescendingScores(reranked)
        /\ \A i \in 1..Len(reranked) :
              Occurrences(reranked, reranked[i]) <= Occurrences(rerank_resp.scores, reranked[i])
        /\ Len(reranked) <= config.top_n
        /\ Len(reranked) = Min(config.top_n, Len(rerank_resp.scores))

\* The rerank call failed: the request failed or timed out, the status was
\* no success, the answer could not be decoded, or the answer is malformed
\* (it names a text that does not exist).
RerankCallFailed ==
    /\ tool = "search_dockstore"
    /\ \/ rerank_resp.status = "failed"
       \/ /\ rerank_resp.status = "answered"
          /\ \E k \in 1..Len(rerank_resp.scores) :
                ~IndexOk(rerank_resp.scores[k].index, Len(results.hits))

\* C13: whenever the rerank call failed, search_dockstore has fallen back
\* to the backend's ranking and the request ends with a results outcome,
\* never with an error.
C13_RerankFailureFallsBack ==
    (RerankCallFailed /\ pc = "done") =>
        /\ reranked = fallback(results.hits, config.top_n)
        /\ ret.kind = "results"

\* The hits of the example: scores 9, 8, ..., 0.
ExampleHits == [i \in 1..10 |-> Hit(10 - i, "", "w", "", "p")]

BackendFailed ==
    /\ tool = "search_dockstore"
    /\ pc = "done"
    /\ body # NoBody
    /\ ~results.answered
RerankCalls == { i \in 1..Len(calls) : calls[i].call = "rerank" }

HitsSelected ==
    /\ tool = "search_dockstore"
    /\ pc = "done"
    /\ results.answered
    /\ Len(results.hits) >= 1
    /\ \A i \in 1..Len(config.query) : Len(config.query[i]) = 3
    /\ rerank_resp.status = "failed" \/ RerankSucceeded

\* C16: when the backend returned at least one hit, search_dockstore returns
\* a results mapping with one entry for each hit selected by the reranking
\* or the fallback.
C16_ResultsForSelectedHits ==
    HitsSelected =>
        /\ ret.kind = "results"
        /\ ret.count = Len(reranked)

(***************************************************************************)
(* Properties of dockstore_workflow_download (checked under Spec).         *)
(***************************************************************************)
Downloaded ==
    /\ tool = "dockstore_workflow_download"
    /\ ret.kind = "text"
    /\ ret.error.err = "downloaded"
\* The source files of the workflow that are WDL files with content.
WdlSources ==
    { f \in UNION { Range(workflow[v]) : v \in 1..Len(workflow) } :
        IsWdl(f.path) /\ f.content # "" }

\* C17: after a download reported with count N, the extracted pairs are
\* the workflow's WDL files with content and no others, each pair is in the
\* target directory under its name with its own content, and N is the number
\* of files in the directory.
C17_DownloadedFilesSaved ==
    Downloaded =>
        /\ Range(wdl_files) = WdlSources
        /\ \A i \in 1..Len(wdl_files) :
              /\ PathName(wdl_files[i].path) \in DOMAIN wdl_dir
              /\ wdl_dir[PathName(wdl_files[i].path)] = wdl_files[i].content
        /\ ret.count = Cardinality(DOMAIN wdl_dir)

(***************************************************************************)
(* Further properties of compose_input_json (checked under Spec).          *)
(***************************************************************************)
\* C18: an input whose sample_count is no positive integer is rejected by
\* the validation of sample_count before normalization runs: the rejection
\* is the validation error of the field, not an error of the replication or
\* of the length comparison, and no normalized params exist.
C18_CountValidatedBeforeNormalization ==
    (Composing /\ pc \notin {"idle", "normalize"} /\ ~PositiveCount(cfg)) =>
        /\ ret.kind = "rejected"
        /\ ret.exc = "ValidationError"
        /\ ret.error = NoError
        /\ params = ParamsOther

\* The positions of the sample headers in a text, and the header that
\* governs position p: the last one at or before p.
HeaderPos(text) == { i \in 1..Len(text) : text[i].tok = "header" }
HeaderOf(text, p) ==
    CHOOSE h \in HeaderPos(text) : h <= p /\ \A g \in HeaderPos(text) : g <= p => g <= h

\* C19: the combined error text follows the input order: every block starts
\* with the 1-based index of its sample, the indices of the blocks increase
\* strictly, there is one block for each sample in error and none for the
\* others, each error stands under the header of the sample it belongs to,
\* and the blocks are separated by a blank line.
C19_ErrorTextInSampleOrder ==
    /\ (Composing /\ pc = "fill_loop") =>
          \A b \in 1..Len(all_errs) : all_errs[b][1].idx <= Len(filled_all)
    /\ BuildInputsReturns =>
          LET text == CombinedErrors(all_errs)
              H    == HeaderPos(text)
          IN  /\ \A i, j \in H : i < j => text[i].idx < text[j].idx
              /\ { text[i].idx : i \in H } = BadSamples
              /\ Len(text) > 0 => 1 \in H
              /\ \A j \in H : j = 1 \/ (j >= 3 /\ text[j - 1] = NL /\ text[j - 2] = NL)
              /\ \A i \in 1..Len(text) - 1 :
                    (text[i] = NL /\ text[i + 1] = NL) => (i + 2) \in H
              /\ \A p \in 1..Len(text) :
                    LET smp == params.l[text[HeaderOf(text, p)].idx].d IN
                    /\ text[p].tok = "missing" =>
                          Range(text[p].keys) \subseteq (cls.required \ DOMAIN smp)
                    /\ text[p].tok = "extra" =>
                          Range(text[p].keys) = DOMAIN smp \ DOMAIN tpl

\* C19 witness: a batch returned with error blocks for samples 1 and 3 and
\* none for sample 2.
C19_Witness ==
    /\ Composing
    /\ ret.kind = "param_error"
    /\ Len(all_errs) = 2
    /\ all_errs[1][1].idx = 1
    /\ all_errs[2][1].idx = 3

\* The backend calls of the log, and the display texts of the hits.
BackendCalls == { i \in 1..Len(calls) : calls[i].call = "backend_search" }
DisplayTexts(hits) ==
    [i \in 1..Len(hits) |->
        << IF hits[i]._source.workflowName # "" THEN hits[i]._source.workflowName
           ELSE hits[i]._source.name,
           " - ", hits[i]._source.description >>]

\* C20: in search_dockstore the rerank call is made at most once, after the
\* backend call, when the backend has answered with at least one hit, and
\* with one display text for every hit; while the backend call is awaited,
\* and after it failed, timed out or returned no hits, no rerank call exists.
C20_RerankAfterBackendAndTexts ==
    tool = "search_dockstore" =>
        /\ Cardinality(RerankCalls) <= 1
        /\ \A i \in RerankCalls :
              /\ \E j \in BackendCalls : j < i
              /\ pc \in {"await_rerank", "done"}
              /\ results.answered
              /\ Len(results.hits) >= 1
              /\ calls[i].texts = DisplayTexts(results.hits)
        /\ pc \in {"validate_config", "build_queries", "await_search"} => RerankCalls = {}
        /\ pc = "await_rerank" => Cardinality(RerankCalls) = 1
        /\ (pc = "done" /\ (~results.answered \/ Len(results.hits) = 0)) =>
              /\ RerankCalls = {}
              /\ rerank_resp = NoRerankResp
        /\ rerank_resp # NoRerankResp => RerankCalls # {}

\* C20 witness: the rerank call is in flight after an answer of two hits.
C20_Witness ==
    /\ tool = "search_dockstore"
    /\ pc = "await_rerank"
    /\ Len(results.hits) = 2
    /\ Len(calls) = 2
    /\ calls[1].call = "backend_search"
    /\ calls[2].call = "rerank"
    /\ Len(calls[2].texts) = 2

\* C21: after a successful answer of the rerank service, hits with equal
\* rerank scores stand in the rerank result in ascending order of their
\* original hit index, whatever order the service listed them in.
C21_TiesInBackendOrder ==
    RerankSucceeded =>
        \A i, j \in 1..Len(reranked) :
            (i < j /\ reranked[i].score = reranked[j].score) =>
                reranked[i].index < reranked[j].index

\* A search request: a call of search_dockstore or of dockstore_search.
SearchRequest == tool \in {"search_dockstore", "dockstore_search"}

\* C22: nothing is retried: in every state of a search request, the ones
\* after a timeout or a failure included, the log of external calls holds at
\* most one backend search call and at most one rerank call, and a request
\* that has ended in an error made each call it made exactly once.
C22_NoRetry ==
    SearchRequest =>
        /\ Cardinality(BackendCalls) <= 1
        /\ Cardinality(RerankCalls) <= 1
        /\ tool = "search_dockstore" =>
              Len(calls) = Cardinality(BackendCalls) + Cardinality(RerankCalls)
        /\ (pc = "done" /\ ret.kind = "error" /\ body # NoBody) =>
              Cardinality(BackendCalls) = 1
        /\ rerank_resp.status = "failed" => Cardinality(RerankCalls) = 1

\* C22 witness: a request ended after the rerank call failed, with one call
\* of each kind in the log.
C22_Witness ==
    /\ tool = "search_dockstore"
    /\ pc = "done"
    /\ rerank_resp.status = "failed"
    /\ Cardinality(BackendCalls) = 1
    /\ Cardinality(RerankCalls) = 1

\* Invocation t waits for an external call it made: the backend request, the
\* rerank request, or the bw subprocess.
InExternalCall(t) == tasks[t].pc \in {"await_search", "await_rerank", "subprocess"}
\* Invocation u is in flight and its next step needs nothing but the loop: it
\* was just called, or the answer it awaits can arrive.
Runnable(u) == tasks[u].pc \in {"ready", "await_search", "await_rerank"}
\* The loop resumes invocation u.
LoopStep(u) ==
    \/ LoopSearchStart(u)
    \/ LoopSearchAnswer(u)
    \/ LoopRerankAnswer(u)
    \/ LoopSubmitRun(u)

\* C23: every external call of a tool is a suspension point: while an
\* invocation waits for its external call (backend request, rerank request,
\* subprocess), the loop's thread is free and every other invocation in
\* flight can be resumed.
C23_ExternalCallsSuspend ==
    \A t \in Tasks :
        InExternalCall(t) =>
            /\ loop = 0
            /\ \A u \in Tasks \ {t} : Runnable(u) => ENABLED LoopStep(u)

\* Invocation t is a search_dockstore call that has returned.
SearchReturned(t) == tasks[t].tool = "search_dockstore" /\ tasks[t].pc = "done"

\* C24: in every interleaving of two search_dockstore invocations, each
\* returns what search_dockstore returns when run alone on its own config
\* with the same ends of its backend and rerank requests; the shared
\* RERANKER is never written, and an invocation not yet called is untouched.
C24_InvocationsIndependent ==
    /\ \A t \in Tasks :
          /\ SearchReturned(t) =>
                tasks[t].ret = search_dockstore_outcome(tasks[t].config, tasks[t].backend,
                                                        tasks[t].hits, tasks[t].rr)
          /\ tasks[t].pc = "idle" => tasks[t] = NoTask
          /\ tasks[t].pc \in {"ready", "await_search"} =>
                /\ tasks[t].hits = << >>
                /\ tasks[t].ret = NoRet
    /\ RERANKER = RerankClient

\* C24 witness: invocation 1 returned after its rerank answer on two hits
\* while invocation 2, with one hit and another config, awaits its own.
C24_Witness ==
    /\ SearchReturned(1)
    /\ tasks[1].rr.status = "answered"
    /\ Len(tasks[1].hits) = 2
    /\ tasks[2].tool = "search_dockstore"
    /\ tasks[2].pc = "await_rerank"
    /\ Len(tasks[2].hits) = 1
    /\ tasks[2].config # tasks[1].config

\* The terms of the conditions compiled into backend clauses, in condition
\* order, joined by spaces.
CompiledTerms == Join([i \in 1..Len(queries) |-> << queries[i].terms[1] >>], << " " >>)

\* C25: the query handed to the reranker is the terms of exactly the
\* compiled conditions, in condition order, and the backend call carries the
\* search body only, never this text.
C25_RerankQueryFromCompiledTerms ==
    tool = "search_dockstore" =>
        /\ \A i \in RerankCalls : calls[i].query = CompiledTerms
        /\ \A j \in BackendCalls : calls[j].query = << >> /\ calls[j].body = body

\* The position in the hit list that index i of a ranking selects.
HitPos(i) == IF i >= 0 THEN i ELSE Len(results.hits) + i
\* The hits selected by the ranking are retrieved hits as they were
\* retrieved, no hit is selected twice, and the retrieved list is one of the
\* backend's answers, as it was received.
OnlyReordersAndSelects ==
    LET top_hits == TopHits(reranked, results.hits) IN
    /\ \A k \in 1..Len(top_hits) :
          /\ \E i \in 1..Len(results.hits) : top_hits[k] = results.hits[i]
          /\ top_hits[k] = results.hits[HitPos(reranked[k].index) + 1]
    /\ \A k, l \in 1..Len(reranked) :
          k # l => HitPos(reranked[k].index) # HitPos(reranked[l].index)
    /\ results.hits \in HitLists
\* The rerank service listed every hit position at most once, by indices
\* from 0.
DistinctIndices ==
    /\ \A k \in 1..Len(rerank_resp.scores) : rerank_resp.scores[k].index >= 0
    /\ \A k, l \in 1..Len(rerank_resp.scores) :
          k # l => rerank_resp.scores[k].index # rerank_resp.scores[l].index

\* C26 as stated: for every answer of the rerank service, the selected hits
\* are retrieved hits with their content unchanged, no retrieved hit is
\* selected more than once, and the retrieved hit list is not modified.
C26_OnlyReordersAndSelects ==
    HitsSelected => OnlyReordersAndSelects

\* The same restricted to the answers of the rerank service that list each
\* hit position at most once by indices from 0, and to the fallback: this
\* restriction holds.
ReordersAndSelectsOnDistinctAnswers ==
    (HitsSelected /\ DistinctIndices) => OnlyReordersAndSelects

\* The writes of the output file in the log of external calls.
WriteCalls == { i \in 1..Len(calls) : calls[i].call = "write_output" }

\* C27: compose_input_json writes the output file exactly when the combined
\* error text is empty.  With an error in any sample it returns the error
\* text, no write was made and the file does not exist, whatever was filled;
\* without errors one write was made and the file holds the filled list, one
\* entry per sample; every other end of the call (arguments rejected,
\* template not loaded) leaves the file alone too.
C27_FileWrittenIffNoErrors ==
    Composing =>
        /\ (WriteCalls # {}) <=> (pc = "done" /\ ret.kind = "generated")
        /\ out_file.exists <=> (WriteCalls # {})
        /\ (pc = "done" /\ ret.kind \in {"param_error", "generated"}) =>
              ((ret.kind = "generated") <=> (CombinedErrors(all_errs) = << >>))
        /\ ret.kind = "param_error" =>
              /\ out_file = NoFile
              /\ ret.text = CombinedErrors(all_errs)
              /\ ret.text # << >>
        /\ ret.kind = "generated" =>
              /\ Cardinality(WriteCalls) = 1
              /\ out_file = FileWith(filled_all)
              /\ Len(out_file.content) = Len(params.l)
              /\ \A i \in 1..Len(params.l) :
                    out_file.content[i] = ExpectedFilled(params.l[i].d, cls)

\* C27 witness: a batch whose second sample is in error and whose first was
\* filled: the error text is returned and no file exists.
C27_Witness ==
    /\ Composing
    /\ ret.kind = "param_error"
    /\ BadSamples = {2}
    /\ filled_all[1] # EmptyDict
    /\ out_file = NoFile
    /\ WriteCalls = {}

\* A condition search_dockstore compiles, and a query without the others.
WellFormed(item) == Len(item) = 3
WithoutMalformed(query) == SelectSeq(query, WellFormed)
\* How the backend request of the call ended.
BackendEnd ==
    IF results.answered THEN "answered"
    ELSE IF ret.error.err = "timeout" THEN "timeout" ELSE "none"

\* C28: a search_dockstore call whose query holds at least one well-formed
\* condition ends as the call on the same query without its malformed
\* entries ends, given the same answers of the backend and of the rerank
\* service: the malformed entries are skipped and fail nothing.
C28_MalformedConditionsSkipped ==
    (/\ tool = "search_dockstore"
     /\ pc = "done"
     /\ ret.kind # "rejected"
     /\ Len(WithoutMalformed(config.query)) >= 1) =>
        ret = search_dockstore_outcome([config EXCEPT !.query = WithoutMalformed(config.query)],
                                       BackendEnd, results.hits, rerank_resp)

\* The names of the selected hits, in the order of the ranking.
SelectedNames ==
    LET top_hits == TopHits(reranked, results.hits) IN
    [k \in 1..Len(top_hits) |->
        IF top_hits[k]._source.workflowName # "" THEN top_hits[k]._source.workflowName
        ELSE top_hits[k]._source.name]

\* C29: when hits were selected, search_dockstore returns a results mapping
\* whose entries follow the order of the rerank result (or of the fallback):
\* formatting neither reorders the selected hits nor drops one.
C29_ResultsInRerankOrder ==
    HitsSelected =>
        /\ ret.kind = "results"
        /\ format_results_links(TopHits(reranked, results.hits)) = SelectedNames

\* C30: filling is idempotent on its error-free output: when fill_one_sample
\* filled a sample without errors, filling the filled map again against the
\* same template, in any iteration order of its sets, gives the same filled
\* map and no errors.
C30_FillIdempotent ==
    (pc = "filled" /\ errors = << >>) =>
        \A req_iter \in Orderings(cls.required),
           extra_iter \in Orderings(DOMAIN filled \ DOMAIN tpl) :
            fill_one_sample(filled, req_iter, cls.opt_def, cls.opt_nodef,
                            DOMAIN tpl, extra_iter)
                = [filled |-> filled, errors |-> << >>]

\* C30 witness: a sample filled without errors whose filled map differs from
\* it: a default was filled in for a key the sample does not have, next to
\* a required value of the sample.
C30_Witness ==
    /\ pc = "filled"
    /\ errors = << >>
    /\ filled # sample
    /\ \E k \in DOMAIN cls.opt_def : k \notin DOMAIN sample /\ filled[k] = cls.opt_def[k]
    /\ \E k \in cls.required : filled[k] = sample[k]

====
